---- MODULE Spec2Model ----
(***************************************************************************)
(* Model of flint-core's execution engine:                                 *)
(*   src/src/test_spec.rs  TickSpec, TestSpec::max_tick, Block, Item       *)
(*   src/src/timeline.rs   TimelineAggregate                               *)
(*   src/src/results.rs    TestResult, AssertionResult                     *)
(*   src/src/runner.rs     TestRunner::run_test, run_tests,                *)
(*                         execute_action, block_matches                   *)
(*   src/src/results.rs    TestSummary::from_results                       *)
(*   src/src/spatial.rs    calculate_test_offset, calculate_all_offsets,   *)
(*                         calculate_grid_dimensions, apply_offset,        *)
(*                         apply_offset_to_region                          *)
(*   src/src/test_spec.rs  TestSpec::validate, from_file, cleanup_region   *)
(*   src/src/results.rs    TestResult::add_assertion, TestSummary          *)
(*   src/src/index.rs      Index, get_hash                                 *)
(*   src/src/loader.rs     TestLoader                                      *)
(*   src/src/utils.rs      is_json_file, get_index_name, get_default_tag   *)
(*                                                                         *)
(* Conventions.  Rust indices (test_idx, value_idx) are 0-based and are    *)
(* kept 0-based in the schedule tuples; TLA+ sequences are 1-based, so the *)
(* j-th Rust element is element j+1 of the sequence.  A reference          *)
(* &TimelineEntry is modelled by the 0-based position of the entry in its  *)
(* owning test's timeline.  Option<T> is None or Some(v).  A String is a   *)
(* sequence of tokens, the 10-character prefix "minecraft:" being one      *)
(* token.  A HashMap is a function whose DOMAIN is the key set.            *)
(***************************************************************************)
EXTENDS Integers, Sequences, FiniteSets, TLC

VARIABLES
    spec,        \* run_test: the TestSpec given to the call (None outside run_test)
    tests,       \* tests_with_offsets: a sequence of (TestSpec, offset) pairs
    timeline,    \* the TimelineAggregate built from tests (None before it is built)
    event,       \* result of the last next_*_tick query on the aggregate
    pc,          \* position of the running call
    tick,        \* run_test: loop variable of `for tick in 0..=max_tick`
    idx,         \* run_test: number of entries of `actions` already dispatched at tick
    result,      \* run_test: the TestResult under construction
    player,      \* run_test: Option<Box<dyn FlintPlayer>>, None or Some
    calls,       \* the adapter operations performed so far, in order
    dispatched,  \* history: the schedule entries handed to execute_action, in order
    visited,     \* history: the values taken by the loop variable tick, in order
    specs,       \* run_tests: Some(the slice of TestSpec given to the call), None outside run_tests
    results,     \* run_tests: the TestResults collected so far
    summary,     \* run_tests: the TestSummary returned (None before the return)
    logs,        \* history: for each collected result, the adapter operations of its run
    failed,      \* history: an adapter operation has failed
    call,        \* a call of a pure function: its name, arguments and result (None otherwise)
    fs,          \* the files under the test path, and whether the directory can be read
    index_file,  \* the index file: None when it does not exist, Some(its JSON object)
    loader,      \* the TestLoader in use: None before TestLoader::new
    changes      \* history: the number of changes made to the files under the test path

vars == <<spec, tests, timeline, event, pc, tick, idx, result, player, calls, dispatched, visited,
          specs, results, summary, logs, failed, call, fs, index_file, loader, changes>>

\* the state of run_tests and of the pure-function calls
others == <<specs, results, summary, logs, failed, call>>

\* the state of the test directory, of the index file and of the loader
storage == <<fs, index_file, loader, changes>>

(***************************************************************************)
(* Bounds of the model.                                                    *)
(***************************************************************************)
\* ticks range over 0..MaxTick
MaxTick == 2
\* total_tests ranges over 0..MaxTotal
MaxTotal == 10
\* total number of tick numbers (scheduled ticks and breakpoints) written in one input
MaxSched == 2
\* number of checks of one Assert action
MaxChecks == 2
\* number of tests aggregated by one from_tests call
MaxTests == 2
\* number of add_assertion calls on one TestResult
MaxAssertions == 3
\* the corners of a Fill have their coordinates in -1..MaxFill
MaxFill == 1

Ticks == 0..MaxTick

None == [tag |-> "None"]
Some(v) == [tag |-> "Some", v |-> v]

Min(a, b) == IF a <= b THEN a ELSE b
Max(a, b) == IF a >= b THEN a ELSE b

\* Iterator::max over a collection of u32, as a set: None when it is empty
SetMax(S) == IF S = {} THEN None ELSE Some(CHOOSE m \in S : \A x \in S : x <= m)
\* Iterator::min over a collection of u32, as a set: None when it is empty
SetMin(S) == IF S = {} THEN None ELSE Some(CHOOSE m \in S : \A x \in S : m <= x)

Range(s) == {s[i] : i \in DOMAIN s}

\* no TestLoader is in use: the test path is an empty directory and no index file exists
NoLoader ==
    /\ fs = [files |-> << >>, readable |-> TRUE]
    /\ index_file = None
    /\ loader = None
    /\ changes = 0

(***************************************************************************)
(* test_spec.rs: Block, TickSpec, TestSpec                                 *)
(***************************************************************************)
Block(id, properties) == [id |-> id, properties |-> properties]
NoProperties == << >>

Single(t) == [kind |-> "Single", t |-> t]
Multiple(v) == [kind |-> "Multiple", v |-> v]

\* TickSpec::to_vec
to_vec(at) == IF at.kind = "Single" THEN <<at.t>> ELSE at.v

\* the ticks of all entries of a timeline, in order: flat_map(|entry| entry.at.to_vec())
RECURSIVE FlatTicks(_)
FlatTicks(tl) == IF tl = << >> THEN << >> ELSE to_vec(Head(tl).at) \o FlatTicks(Tail(tl))

\* mutant: the last tick named instead of the greatest
TestSpec_max_tick_Last(test) ==
    LET ticks == FlatTicks(test.timeline)
    IN  IF ticks = << >> THEN 0 ELSE ticks[Len(ticks)]

\* TestSpec::max_tick
\* mutant: a timeline that names no tick ends at tick 1
TestSpec_max_tick_OrOne(test) ==
    LET m == SetMax(Range(FlatTicks(test.timeline)))
    IN  IF m = None THEN 1 ELSE m.v

TestSpec_max_tick(test) ==
    LET m == SetMax(Range(FlatTicks(test.timeline)))
    IN  IF m = None THEN 0 ELSE m.v

(***************************************************************************)
(* timeline.rs: TimelineAggregate                                          *)
(***************************************************************************)
\* mutant: the schedule entry is put in front of the tick's list
PushAt_Front(tl, t, item) ==
    IF t \in DOMAIN tl
    THEN [tl EXCEPT ![t] = <<item>> \o @]
    ELSE [k \in DOMAIN tl \cup {t} |-> IF k = t THEN <<item>> ELSE tl[k]]

\* timeline.entry(tick).or_default().push(item)
PushAt(tl, t, item) ==
    IF t \in DOMAIN tl
    THEN [tl EXCEPT ![t] = Append(@, item)]
    ELSE [k \in DOMAIN tl \cup {t} |-> IF k = t THEN <<item>> ELSE tl[k]]

\* mutant: every occurrence is tagged with value_idx 0
RECURSIVE ExpandEntry_ZeroIdx(_, _, _, _, _)
ExpandEntry_ZeroIdx(tl, test_idx, entry_idx, ticks, j) ==
    IF j > Len(ticks) THEN tl
    ELSE ExpandEntry_ZeroIdx(
             IF ticks[j] \in DOMAIN tl
             THEN [tl EXCEPT ![ticks[j]] = Append(@, <<test_idx, entry_idx, 0>>)]
             ELSE [k \in DOMAIN tl \cup {ticks[j]} |->
                      IF k = ticks[j] THEN << <<test_idx, entry_idx, 0>> >> ELSE tl[k]],
             test_idx, entry_idx, ticks, j + 1)

\* for (value_idx, tick) in ticks.iter().enumerate(): push (test_idx, entry, value_idx);
\* j is the 1-based position of the next tick of the list
RECURSIVE ExpandEntry(_, _, _, _, _)
ExpandEntry(tl, test_idx, entry_idx, ticks, j) ==
    IF j > Len(ticks) THEN tl
    ELSE ExpandEntry(PushAt(tl, ticks[j], <<test_idx, entry_idx, j - 1>>),
                     test_idx, entry_idx, ticks, j + 1)

\* for entry in &test.timeline: expand it; e is the 1-based position of the next entry
RECURSIVE ExpandTest(_, _, _, _)
ExpandTest(tl, test_idx, entries, e) ==
    IF e > Len(entries) THEN tl
    ELSE ExpandTest(ExpandEntry(tl, test_idx, e - 1, to_vec(entries[e].at), 1),
                    test_idx, entries, e + 1)

\* mutant: the set is replaced by the test's breakpoints
InsertAll_Overwrite(set, bps) == Range(bps)

\* for &bp in &test.breakpoints: breakpoints.insert(bp)
InsertAll(set, bps) == set \cup Range(bps)

\* the body of the loop over tests_with_offsets.iter().enumerate(), folded from test i on
RECURSIVE FoldTests(_, _, _)
FoldTests(acc, tws, i) ==
    IF i > Len(tws) THEN acc
    ELSE LET test == tws[i][1]
             test_max_tick == TestSpec_max_tick(test)
         IN  FoldTests([timeline    |-> ExpandTest(acc.timeline, i - 1, test.timeline, 1),
                        max_tick    |-> IF test_max_tick > acc.max_tick
                                        THEN test_max_tick ELSE acc.max_tick,
                        breakpoints |-> InsertAll(acc.breakpoints, test.breakpoints)],
                       tws, i + 1)

\* TimelineAggregate::from_tests
from_tests(tws) ==
    FoldTests([timeline |-> << >>, max_tick |-> 0, breakpoints |-> {}], tws, 1)

\* TimelineAggregate::unique_tick_count
unique_tick_count(agg) == Cardinality(DOMAIN agg.timeline)

\* TimelineAggregate::next_action_tick
next_action_tick(agg, current_tick) ==
    SetMin({t \in DOMAIN agg.timeline : t > current_tick})

\* mutant: the last breakpoint after the tick
next_breakpoint_Greatest(agg, current_tick) ==
    SetMax({t \in agg.breakpoints : t > current_tick})

\* TimelineAggregate::next_breakpoint
next_breakpoint(agg, current_tick) ==
    SetMin({t \in agg.breakpoints : t > current_tick})

\* mutant: the next action is preferred to an earlier breakpoint
next_event_tick_ActionFirst(agg, current_tick) ==
    IF next_action_tick(agg, current_tick) # None
    THEN next_action_tick(agg, current_tick)
    ELSE next_breakpoint(agg, current_tick)

\* TimelineAggregate::next_event_tick
next_event_tick(agg, current_tick) ==
    LET next_action == next_action_tick(agg, current_tick)
        next_bp == next_breakpoint(agg, current_tick)
    IN  CASE next_action # None /\ next_bp # None -> Some(Min(next_action.v, next_bp.v))
          [] next_action # None /\ next_bp = None -> Some(next_action.v)
          [] next_action = None /\ next_bp # None -> Some(next_bp.v)
          [] OTHER                                -> None

(***************************************************************************)
(* results.rs: AssertionResult, AssertFailure, TestResult                  *)
(* error_message (a rendering of position, expected and actual) and the    *)
(* execution_time_ms of an AssertFailure (None in every record the runner  *)
(* builds) are left out of the records.  The execution_time_ms of a        *)
(* TestResult is a u64 number of milliseconds.                             *)
(***************************************************************************)
Success(t) == [kind |-> "Success", tick |-> t]
Failure(fail) == [kind |-> "Failure", fail |-> fail]

InfoBlock(b) == [kind |-> "Block", block |-> b]

AssertFailure(t, position, expected, actual) ==
    [tick |-> t, position |-> position, expected |-> expected, actual |-> actual]

\* TestResult::new
TestResult_new(test_name) ==
    [test_name |-> test_name, success |-> TRUE, assertions |-> << >>, total_ticks |-> 0,
     execution_time_ms |-> 0, failure_reason |-> None]

\* mutant: the assertion is put in front of the list
add_assertion_Front(res, assertion) ==
    [res EXCEPT !.success = IF assertion.kind = "Failure" THEN FALSE ELSE @,
                !.assertions = <<assertion>> \o @]

\* mutant: the flag follows the last assertion added
add_assertion_LastWins(res, assertion) ==
    [res EXCEPT !.success = assertion.kind # "Failure",
                !.assertions = Append(@, assertion)]

\* TestResult::add_assertion
add_assertion(res, assertion) ==
    [res EXCEPT !.success = IF assertion.kind = "Failure" THEN FALSE ELSE @,
                !.assertions = Append(@, assertion)]

\* TestResult::with_execution_time
with_execution_time(res, ms) == [res EXCEPT !.execution_time_ms = ms]

\* TestResult::with_failure_reason
with_failure_reason(res, reason) ==
    [res EXCEPT !.success = FALSE, !.failure_reason = Some(reason)]

(***************************************************************************)
(* The adapter (FlintWorld, FlintPlayer) is external: the model records    *)
(* each operation the runner performs on it and lets get_block return any  *)
(* block of WorldBlocks.                                                   *)
(***************************************************************************)
OpCreateTestWorld == [op |-> "create_test_world"]
OpCreatePlayer == [op |-> "create_player"]
OpSetBlock(pos, block) == [op |-> "set_block", pos |-> pos, block |-> block]
OpGetBlock(pos, ret) == [op |-> "get_block", pos |-> pos, ret |-> ret]
OpDoTick == [op |-> "do_tick"]
OpSetSlot(slot, item) == [op |-> "set_slot", slot |-> slot, item |-> item]
OpSelectHotbar(slot) == [op |-> "select_hotbar", slot |-> slot]
OpUseItemOn(pos, face) == [op |-> "use_item_on", pos |-> pos, face |-> face]

(***************************************************************************)
(* test_spec.rs: Item                                                      *)
(***************************************************************************)
Air == <<"minecraft:", "air">>

\* Item::empty
Item_empty == [id |-> Air, count |-> 0]

\* Item::new
Item_new(id) ==
    IF Len(id) >= 1 /\ id[1] = "empty" THEN Item_empty ELSE [id |-> id, count |-> 1]

\* Item::with_count
Item_with_count(id, count) == [id |-> id, count |-> count]

(***************************************************************************)
(* runner.rs: block_matches, execute_action                                *)
(***************************************************************************)
starts_with_minecraft(id) == Len(id) >= 1 /\ id[1] = "minecraft:"

\* mutant: the prefix is not stripped
StripPrefix_Keep(id) == id

\* &id[10..] when id starts with "minecraft:", id otherwise
StripPrefix(id) == IF starts_with_minecraft(id) THEN Tail(id) ELSE id

\* mutant: the two blocks have the same properties
block_matches_Exact(actual, expected) ==
    /\ actual.id # expected.id => StripPrefix(actual.id) = StripPrefix(expected.id)
    /\ actual.properties = expected.properties

\* mutant: a property the actual block lacks is not compared
block_matches_MissingIgnored(actual, expected) ==
    /\ actual.id # expected.id => StripPrefix(actual.id) = StripPrefix(expected.id)
    /\ \A key \in DOMAIN expected.properties :
          key \in DOMAIN actual.properties =>
             actual.properties[key] = expected.properties[key]

\* block_matches
block_matches(actual, expected) ==
    /\ actual.id # expected.id => StripPrefix(actual.id) = StripPrefix(expected.id)
    /\ \A key \in DOMAIN expected.properties :
          /\ key \in DOMAIN actual.properties
          /\ actual.properties[key] = expected.properties[key]

OutcomeAction == [kind |-> "Action"]
OutcomeAssertPassed == [kind |-> "AssertPassed"]
OutcomeAssertFailed(fail) == [kind |-> "AssertFailed", fail |-> fail]

\* s[i] for i in lo..hi, as a sequence
Ascending(lo, hi) == [i \in 1..(IF hi >= lo THEN hi - lo + 1 ELSE 0) |-> lo + i - 1]

RECURSIVE Concat(_)
Concat(ss) == IF ss = << >> THEN << >> ELSE Head(ss) \o Concat(Tail(ss))

\* mutant: the corners are taken as the minimum and the maximum, in the order given
FillOps_AsGiven(region, with) ==
    LET xs == Ascending(region[1][1], region[2][1])
        ys == Ascending(region[1][2], region[2][2])
        zs == Ascending(region[1][3], region[2][3])
    IN  Concat([i \in DOMAIN xs |->
          Concat([j \in DOMAIN ys |->
            [k \in DOMAIN zs |-> OpSetBlock(<<xs[i], ys[j], zs[k]>>, with)]])])

\* the set_block calls of Fill: for x in min_x..=max_x, for y ..., for z ...
FillOps(region, with) ==
    LET xs == Ascending(Min(region[1][1], region[2][1]), Max(region[1][1], region[2][1]))
        ys == Ascending(Min(region[1][2], region[2][2]), Max(region[1][2], region[2][2]))
        zs == Ascending(Min(region[1][3], region[2][3]), Max(region[1][3], region[2][3]))
    IN  Concat([i \in DOMAIN xs |->
          Concat([j \in DOMAIN ys |->
            [k \in DOMAIN zs |-> OpSetBlock(<<xs[i], ys[j], zs[k]>>, with)]])])

\* mutant: a player is created by every action that needs one
GetOrCreatePlayerOps_Always(p) == <<OpCreatePlayer>>

\* player.get_or_insert_with(|| world.create_player()): the operations it performs
GetOrCreatePlayerOps(p) == IF p = None THEN <<OpCreatePlayer>> ELSE << >>

\* the position of the first check that does not match, 0 when every check matches;
\* actuals[j] is what get_block returns for the j-th check
FirstMismatch(checks, actuals) ==
    LET bad == {j \in DOMAIN checks : ~block_matches(actuals[j], checks[j].is)}
    IN  IF bad = {} THEN 0 ELSE CHOOSE j \in bad : \A k \in bad : j <= k

\* mutant: every check is evaluated before the first mismatch is reported
ExecuteAssert_AllChecks(p, checks, t, actuals) ==
    LET m == FirstMismatch(checks, actuals)
    IN  [outcome |-> IF m = 0 THEN OutcomeAssertPassed
                     ELSE OutcomeAssertFailed(AssertFailure(t, checks[m].pos,
                              InfoBlock(checks[m].is), InfoBlock(actuals[m]))),
         ops     |-> [j \in DOMAIN checks |-> OpGetBlock(checks[j].pos, actuals[j])],
         player  |-> p]

\* mutant: an Assert without checks counts as a plain action
ExecuteAssert_EmptyIsAction(p, checks, t, actuals) ==
    LET m == FirstMismatch(checks, actuals)
        n == IF m = 0 THEN Len(checks) ELSE m
    IN  [outcome |-> IF checks = << >> THEN OutcomeAction
                     ELSE IF m = 0 THEN OutcomeAssertPassed
                     ELSE OutcomeAssertFailed(AssertFailure(t, checks[m].pos,
                              InfoBlock(checks[m].is), InfoBlock(actuals[m]))),
         ops     |-> [j \in 1..n |-> OpGetBlock(checks[j].pos, actuals[j])],
         player  |-> p]

\* mutant: the failure reports the position of the first check of the Assert
ExecuteAssert_FirstPosition(p, checks, t, actuals) ==
    LET m == FirstMismatch(checks, actuals)
        n == IF m = 0 THEN Len(checks) ELSE m
    IN  [outcome |-> IF m = 0 THEN OutcomeAssertPassed
                     ELSE OutcomeAssertFailed(AssertFailure(t, checks[1].pos,
                              InfoBlock(checks[m].is), InfoBlock(actuals[m]))),
         ops     |-> [j \in 1..n |-> OpGetBlock(checks[j].pos, actuals[j])],
         player  |-> p]

\* the Assert arm of execute_action
ExecuteAssert(p, checks, t, actuals) ==
    LET m == FirstMismatch(checks, actuals)
        n == IF m = 0 THEN Len(checks) ELSE m
    IN  [outcome |-> IF m = 0 THEN OutcomeAssertPassed
                     ELSE OutcomeAssertFailed(AssertFailure(t, checks[m].pos,
                              InfoBlock(checks[m].is), InfoBlock(actuals[m]))),
         ops     |-> [j \in 1..n |-> OpGetBlock(checks[j].pos, actuals[j])],
         player  |-> p]

\* mutant: the inline item is written to hotbar slot 1 but the slot is not selected
ExecuteUseItemOn_NoSelect(p, action) ==
    [outcome |-> OutcomeAction, player |-> Some("player"),
     ops |-> GetOrCreatePlayerOps(p)
             \o (IF action.item # None
                 THEN <<OpSetSlot("Hotbar1", Some(Item_new(action.item.v)))>>
                 ELSE << >>)
             \o <<OpUseItemOn(action.pos, action.face)>>]

\* the UseItemOn arm of execute_action
ExecuteUseItemOn(p, action) ==
    [outcome |-> OutcomeAction, player |-> Some("player"),
     ops |-> GetOrCreatePlayerOps(p)
             \o (IF action.item # None
                 THEN <<OpSetSlot("Hotbar1", Some(Item_new(action.item.v))),
                        OpSelectHotbar(1)>>
                 ELSE << >>)
             \o <<OpUseItemOn(action.pos, action.face)>>]

\* TestRunner::execute_action: the outcome, the adapter operations performed, in order,
\* and the player afterwards
execute_action(p, action, t, actuals) ==
    CASE action.do = "place" ->
           [outcome |-> OutcomeAction, player |-> p,
            ops |-> <<OpSetBlock(action.pos, action.block)>>]
      [] action.do = "place_each" ->
           [outcome |-> OutcomeAction, player |-> p,
            ops |-> [j \in DOMAIN action.blocks |->
                        OpSetBlock(action.blocks[j].pos, action.blocks[j].block)]]
      [] action.do = "fill" ->
           [outcome |-> OutcomeAction, player |-> p,
            ops |-> FillOps(action.region, action.with)]
      [] action.do = "remove" ->
           [outcome |-> OutcomeAction, player |-> p,
            ops |-> <<OpSetBlock(action.pos, Block(Air, NoProperties))>>]
      [] action.do = "assert" -> ExecuteAssert(p, action.checks, t, actuals)
      [] action.do = "use_item_on" -> ExecuteUseItemOn(p, action)
      [] action.do = "set_slot" ->
           [outcome |-> OutcomeAction, player |-> Some("player"),
            ops |-> GetOrCreatePlayerOps(p)
                    \o <<OpSetSlot(action.slot,
                                   IF action.item # None
                                   THEN Some(Item_with_count(action.item.v, action.count))
                                   ELSE None)>>]
      [] action.do = "select_hotbar" ->
           [outcome |-> OutcomeAction, player |-> Some("player"),
            ops |-> GetOrCreatePlayerOps(p) \o <<OpSelectHotbar(action.slot)>>]

(***************************************************************************)
(* Inputs.  An input is written as a sequence of at most MaxSched units,   *)
(* each unit being one tick number occurring in it: the tick of a Single   *)
(* entry, the first tick of a Multiple entry (or its empty list), a        *)
(* further tick of the Multiple entry before it, or a breakpoint.  Every   *)
(* well-formed sequence of units is decoded into the tests it describes,   *)
(* so the inputs are all the batches with at most MaxSched units.          *)
(***************************************************************************)
Origin == <<0, 0, 0>>
Pos(j) == <<j, 0, 0>>

Stone == Block(<<"minecraft:", "stone">>, NoProperties)
PlainStone == Block(<<"stone">>, NoProperties)
Dirt == Block(<<"minecraft:", "dirt">>, NoProperties)

Place(pos, block) == [do |-> "place", pos |-> pos, block |-> block]
Assert_(checks) == [do |-> "assert", checks |-> checks]
BlockCheck(pos, is) == [pos |-> pos, is |-> is]

TestSpec(name, setup, tl, bps) ==
    [name |-> name, setup |-> setup, timeline |-> tl, breakpoints |-> bps]

\* the tick written for the empty list of a Multiple entry: no tick of Ticks
NoTick == MaxTick + 1
NoAct == [do |-> "none"]

\* the units of a batch of nt tests whose actions are in Acts
Units(Acts, nt, withBreakpoints) ==
    [head : {"single", "multiple"}, t : Ticks, act : Acts, test : 1..nt]
    \cup [head : {"multiple"}, t : {NoTick}, act : Acts, test : 1..nt]
    \cup [head : {"cont"} \cup (IF withBreakpoints THEN {"bp"} ELSE {}),
          t : Ticks, act : {NoAct}, test : 1..nt]

\* units are grouped by test; a further tick follows a tick of a Multiple entry of the
\* same test; the breakpoints of a test come after its entries
WellFormed(u) ==
    \A i \in DOMAIN u :
       /\ i > 1 => u[i - 1].test <= u[i].test
       /\ u[i].head = "cont" =>
             /\ i > 1
             /\ u[i - 1].test = u[i].test
             /\ \/ u[i - 1].head = "cont"
                \/ u[i - 1].head = "multiple" /\ u[i - 1].t # NoTick
       /\ (i > 1 /\ u[i - 1].head = "bp" /\ u[i - 1].test = u[i].test) => u[i].head = "bp"

IsBp(x) == x.head = "bp"
IsNotBp(x) == x.head # "bp"

\* the number of units of the first entry of tu
FirstEntryLen(tu) ==
    CHOOSE n \in 1..Len(tu) :
       /\ \A i \in 2..n : tu[i].head = "cont"
       /\ n < Len(tu) => tu[n + 1].head # "cont"

RECURSIVE DecodeTimeline(_)
DecodeTimeline(tu) ==
    IF tu = << >> THEN << >>
    ELSE LET n == FirstEntryLen(tu)
             at == IF tu[1].head = "single" THEN Single(tu[1].t)
                   ELSE IF tu[1].t = NoTick THEN Multiple(<< >>)
                   ELSE Multiple([i \in 1..n |-> tu[i].t])
         IN  <<[at |-> at, action_type |-> tu[1].act]>>
             \o DecodeTimeline(SubSeq(tu, n + 1, Len(tu)))

\* the test written by the units us
DecodeTest(us) ==
    LET bps == SelectSeq(us, IsBp)
    IN  TestSpec("t", None, DecodeTimeline(SelectSeq(us, IsNotBp)),
                 [i \in DOMAIN bps |-> bps[i].t])

\* the batch of nt (test, offset) pairs written by the units u
DecodeBatch(u, nt) ==
    [k \in 1..nt |-> <<DecodeTest(SelectSeq(u, LAMBDA x : x.test = k)), Origin>>]

AggActions == {Place(Origin, Stone)}

\* run_tests is not being called
NoBatch ==
    /\ specs = None
    /\ results = << >>
    /\ summary = None
    /\ logs = << >>
    /\ failed = FALSE

(***************************************************************************)
(* Calls of the aggregate's API: from_tests, then queries.                 *)
(***************************************************************************)
InitAgg ==
    /\ spec = None
    /\ \E nt \in 0..MaxTests, n \in 0..MaxSched :
          \E u \in [1..n -> Units(AggActions, nt, TRUE)] :
             /\ WellFormed(u)
             /\ tests = DecodeBatch(u, nt)
    /\ timeline = None
    /\ event = None
    /\ pc = "aggregate"
    /\ tick = 0
    /\ idx = 0
    /\ result = None
    /\ player = None
    /\ calls = << >>
    /\ dispatched = << >>
    /\ visited = << >>
    /\ NoBatch
    /\ call = None
    /\ NoLoader

\* let aggregate = TimelineAggregate::from_tests(&tests)
Aggregate ==
    /\ pc = "aggregate"
    /\ timeline' = from_tests(tests)
    /\ pc' = "query"
    /\ UNCHANGED <<spec, tests, event, tick, idx, result, player, calls, dispatched, visited>>
    /\ UNCHANGED others
    /\ UNCHANGED storage

\* aggregate.next_action_tick(t), next_breakpoint(t), next_event_tick(t), unique_tick_count()
Query(t) ==
    /\ pc = "query"
    /\ event' = [current_tick |-> t,
                 next_action  |-> next_action_tick(timeline, t),
                 next_bp      |-> next_breakpoint(timeline, t),
                 next_event   |-> next_event_tick(timeline, t),
                 unique_ticks |-> unique_tick_count(timeline)]
    /\ UNCHANGED <<spec, tests, timeline, pc, tick, idx, result, player, calls, dispatched, visited>>
    /\ UNCHANGED others
    /\ UNCHANGED storage

NextAgg ==
    \/ Aggregate
    \/ \E t \in Ticks : Query(t)

SpecAgg == InitAgg /\ [][NextAgg]_vars

\* the offsets of the pairs given to from_tests
Offsets == {Origin, <<16, 0, -16>>}

\* from_tests is called with pairs whose offsets differ
InitOffsets ==
    /\ spec = None
    /\ \E nt \in 0..MaxTests, n \in 0..MaxSched :
          \E u \in [1..n -> Units(AggActions, nt, TRUE)], offsets \in [1..nt -> Offsets] :
             /\ WellFormed(u)
             /\ tests = [k \in 1..nt |-> <<DecodeBatch(u, nt)[k][1], offsets[k]>>]
    /\ timeline = None
    /\ event = None
    /\ pc = "aggregate"
    /\ tick = 0
    /\ idx = 0
    /\ result = None
    /\ player = None
    /\ calls = << >>
    /\ dispatched = << >>
    /\ visited = << >>
    /\ NoBatch
    /\ call = None
    /\ NoLoader

SpecOffsets == InitOffsets /\ [][Aggregate]_vars

(***************************************************************************)
(* A caller walks the events of an aggregate: it calls next_event_tick     *)
(* with a start tick, then with each tick the call before has returned,    *)
(* until the call returns None.  event holds the start tick, the tick of   *)
(* the next call and the ticks returned so far.                            *)
(***************************************************************************)
StartWalk(t) ==
    /\ pc = "query"
    /\ event' = [start |-> t, current_tick |-> t, returned |-> << >>]
    /\ pc' = "walk"
    /\ UNCHANGED <<spec, tests, timeline, tick, idx, result, player, calls, dispatched, visited>>
    /\ UNCHANGED others
    /\ UNCHANGED storage

\* aggregate.next_event_tick(current_tick)
WalkStep ==
    /\ pc = "walk"
    /\ LET next == next_event_tick(timeline, event.current_tick)
       IN  IF next # None
           THEN /\ event' = [event EXCEPT !.current_tick = next.v,
                                          !.returned = Append(@, next.v)]
                /\ UNCHANGED pc
           ELSE /\ pc' = "ended"
                /\ UNCHANGED event
    /\ UNCHANGED <<spec, tests, timeline, tick, idx, result, player, calls, dispatched, visited>>
    /\ UNCHANGED others
    /\ UNCHANGED storage

NextWalk ==
    \/ Aggregate
    \/ \E t \in Ticks : StartWalk(t)
    \/ WalkStep

SpecWalk == InitAgg /\ [][NextWalk]_vars

(***************************************************************************)
(* runner.rs: TestRunner::run_test, one step per loop iteration.           *)
(*   pc = "start"   before the call's first statement                      *)
(*   pc = "loop"    inside `for tick in 0..=timeline.max_tick`, idx        *)
(*                  entries of the tick's actions already dispatched       *)
(*   pc = "finish"  the loop has ended without a failure                   *)
(*   pc = "done"    the call has returned `result`                         *)
(***************************************************************************)
WorldBlocks == {PlainStone, Dirt}

\* the checks of an Assert with k checks: the j-th looks at position (j, 0, 0)
Checks(k) == [j \in 1..k |-> BlockCheck(Pos(j), Stone)]

RunActions == {Place(Origin, Stone)} \cup {Assert_(Checks(k)) : k \in 0..MaxChecks}

\* a Multiple entry is written with no tick or with several: a list of one tick is
\* left to Single, which to_vec turns into the same list
NoSingletonList(u) ==
    \A i \in DOMAIN u :
       (u[i].head = "multiple" /\ u[i].t # NoTick) => (i < Len(u) /\ u[i + 1].head = "cont")

Init ==
    /\ \E n \in 0..MaxSched :
          \E u \in [1..n -> Units(RunActions, 1, FALSE)] :
             /\ WellFormed(u)
             /\ NoSingletonList(u)
             /\ spec = DecodeTest(u)
    /\ tests = << >>
    /\ timeline = None
    /\ event = None
    /\ pc = "start"
    /\ tick = 0
    /\ idx = 0
    /\ result = None
    /\ player = None
    /\ calls = << >>
    /\ dispatched = << >>
    /\ visited = << >>
    /\ NoBatch
    /\ call = None
    /\ NoLoader

\* the orders in which a HashMap with key set S may be iterated
Orders(S) == {f \in [1..Cardinality(S) -> S] : \A i, j \in DOMAIN f : i # j => f[i] # f[j]}

\* mutant: the hotbar slot is selected before the inventory is filled
SetupPlayerOps_SelectFirst(player_config, order) ==
    <<OpCreatePlayer, OpSelectHotbar(player_config.selected_hotbar)>>
    \o [i \in DOMAIN order |-> OpSetSlot(order[i], Some(player_config.inventory[order[i]]))]

\* lines 64-77: the operations initialising the player from setup.player, the
\* inventory being iterated in the order `order`
SetupPlayerOps(player_config, order) ==
    <<OpCreatePlayer>>
    \o [i \in DOMAIN order |-> OpSetSlot(order[i], Some(player_config.inventory[order[i]]))]
    \o <<OpSelectHotbar(player_config.selected_hotbar)>>

HasPlayerConfig(s) == s.setup # None /\ s.setup.v.player # None

\* mutant: the world of the first test of a batch serves the later tests
StartTest_SharedWorld ==
    /\ pc = "start"
    /\ tests' = << <<spec, Origin>> >>
    /\ timeline' = from_tests(tests')
    /\ result' = TestResult_new(spec.name)
    /\ IF HasPlayerConfig(spec)
       THEN \E order \in Orders(DOMAIN spec.setup.v.player.v.inventory) :
               /\ calls' = (IF logs = << >> THEN <<OpCreateTestWorld>> ELSE << >>)
                           \o SetupPlayerOps(spec.setup.v.player.v, order)
               /\ player' = Some("player")
       ELSE /\ calls' = (IF logs = << >> THEN <<OpCreateTestWorld>> ELSE << >>)
            /\ player' = None
    /\ tick' = 0
    /\ idx' = 0
    /\ pc' = "loop"
    /\ visited' = <<0>>
    /\ UNCHANGED <<spec, event, dispatched>>
    /\ UNCHANGED others
    /\ UNCHANGED storage

\* mutant: the player is created at the start whether the setup configures one or not
StartTest_EagerPlayer ==
    /\ pc = "start"
    /\ tests' = << <<spec, Origin>> >>
    /\ timeline' = from_tests(tests')
    /\ result' = TestResult_new(spec.name)
    /\ IF HasPlayerConfig(spec)
       THEN \E order \in Orders(DOMAIN spec.setup.v.player.v.inventory) :
               /\ calls' = <<OpCreateTestWorld>>
                           \o SetupPlayerOps(spec.setup.v.player.v, order)
               /\ player' = Some("player")
       ELSE /\ calls' = <<OpCreateTestWorld, OpCreatePlayer>>
            /\ player' = Some("player")
    /\ tick' = 0
    /\ idx' = 0
    /\ pc' = "loop"
    /\ visited' = <<0>>
    /\ UNCHANGED <<spec, event, dispatched>>
    /\ UNCHANGED others
    /\ UNCHANGED storage

\* lines 51-77: create the world, build the single-test aggregate, create the result,
\* initialise the player from the setup
StartTest ==
    /\ pc = "start"
    /\ tests' = << <<spec, Origin>> >>
    /\ timeline' = from_tests(tests')
    /\ result' = TestResult_new(spec.name)
    /\ IF HasPlayerConfig(spec)
       THEN \E order \in Orders(DOMAIN spec.setup.v.player.v.inventory) :
               /\ calls' = <<OpCreateTestWorld>>
                           \o SetupPlayerOps(spec.setup.v.player.v, order)
               /\ player' = Some("player")
       ELSE /\ calls' = <<OpCreateTestWorld>>
            /\ player' = None
    /\ tick' = 0
    /\ idx' = 0
    /\ pc' = "loop"
    /\ visited' = <<0>>
    /\ UNCHANGED <<spec, event, dispatched>>
    /\ UNCHANGED others
    /\ UNCHANGED storage

\* mutant: only the first action of a tick is taken
ActionsAt_First(agg, t) ==
    IF t \in DOMAIN agg.timeline THEN <<agg.timeline[t][1]>> ELSE << >>

\* timeline.timeline.get(&tick), an empty list standing for None
ActionsAt(agg, t) == IF t \in DOMAIN agg.timeline THEN agg.timeline[t] ELSE << >>

\* mutant: the entry of a schedule tuple is a copy moved by the offset of its test
EntryOf_Shifted(tws, item) ==
    LET entry == tws[item[1] + 1][1].timeline[item[2] + 1]
        offset == tws[item[1] + 1][2]
    IN  IF entry.action_type.do = "place"
        THEN [entry EXCEPT !.action_type.pos =
                 [k \in 1..3 |-> entry.action_type.pos[k] + offset[k]]]
        ELSE entry

\* the TimelineEntry a schedule tuple refers to
EntryOf(tws, item) == tws[item[1] + 1][1].timeline[item[2] + 1]

\* what get_block may return over one execute_action call: one block per check
Answers(action) ==
    IF action.do = "assert" THEN [DOMAIN action.checks -> WorldBlocks] ELSE {<< >>}

\* start_time.elapsed().as_millis() as u64: what the clock reads when run_test returns
ElapsedMs == {0, 1}

\* mutant: total_ticks is not pinned to the failing tick
FailAt_NoPin(res, fail, t) ==
    [add_assertion(res, Failure(fail)) EXCEPT !.success = FALSE]

\* lines 96-98: the failure is recorded, the result marked failed, total_ticks pinned
FailAt(res, fail, t) ==
    [add_assertion(res, Failure(fail)) EXCEPT !.success = FALSE, !.total_ticks = t]

\* lines 89-102: one iteration of `for (_test_idx, entry, _value_idx) in actions.iter()`
Dispatch ==
    /\ pc = "loop"
    /\ idx < Len(ActionsAt(timeline, tick))
    /\ LET item == ActionsAt(timeline, tick)[idx + 1]
           entry == EntryOf(tests, item)
       IN  \E actuals \in Answers(entry.action_type) :
              LET r == execute_action(player, entry.action_type, tick, actuals)
              IN  /\ calls' = calls \o r.ops
                  /\ player' = r.player
                  /\ dispatched' = Append(dispatched,
                                      [tick |-> tick, item |-> item, before |-> Len(calls)])
                  /\ CASE r.outcome.kind = "Action" ->
                            /\ idx' = idx + 1
                            /\ UNCHANGED <<result, pc>>
                       [] r.outcome.kind = "AssertPassed" ->
                            /\ result' = add_assertion(result, Success(tick))
                            /\ idx' = idx + 1
                            /\ UNCHANGED pc
                       [] r.outcome.kind = "AssertFailed" ->
                            /\ \E ms \in ElapsedMs :
                                  result' = [FailAt(result, r.outcome.fail, tick)
                                                EXCEPT !.execution_time_ms = ms]
                            /\ pc' = "done"
                            /\ UNCHANGED idx
    /\ UNCHANGED <<spec, tests, timeline, event, tick, visited>>
    /\ UNCHANGED others
    /\ UNCHANGED storage

\* mutant: a tick without scheduled actions is not ticked
DoTick_SkipIdle ==
    /\ pc = "loop"
    /\ idx = Len(ActionsAt(timeline, tick))
    /\ calls' = IF ActionsAt(timeline, tick) = << >> THEN calls ELSE Append(calls, OpDoTick)
    /\ IF tick < timeline.max_tick
       THEN /\ tick' = tick + 1
            /\ idx' = 0
            /\ visited' = Append(visited, tick + 1)
            /\ UNCHANGED pc
       ELSE /\ pc' = "finish"
            /\ UNCHANGED <<tick, idx, visited>>
    /\ UNCHANGED <<spec, tests, timeline, event, result, player, dispatched>>
    /\ UNCHANGED others
    /\ UNCHANGED storage

\* lines 106-108: world.do_tick() once the tick's actions are dispatched, then the next
\* iteration of the loop over 0..=max_tick
DoTick ==
    /\ pc = "loop"
    /\ idx = Len(ActionsAt(timeline, tick))
    /\ calls' = Append(calls, OpDoTick)
    /\ IF tick < timeline.max_tick
       THEN /\ tick' = tick + 1
            /\ idx' = 0
            /\ visited' = Append(visited, tick + 1)
            /\ UNCHANGED pc
       ELSE /\ pc' = "finish"
            /\ UNCHANGED <<tick, idx, visited>>
    /\ UNCHANGED <<spec, tests, timeline, event, result, player, dispatched>>
    /\ UNCHANGED others
    /\ UNCHANGED storage

\* mutant: total_ticks counts the ticks executed
Finish_CountTicks ==
    /\ pc = "finish"
    /\ \E ms \in ElapsedMs :
          result' = [result EXCEPT !.total_ticks = timeline.max_tick + 1,
                                   !.execution_time_ms = ms]
    /\ pc' = "done"
    /\ UNCHANGED <<spec, tests, timeline, event, tick, idx, player, calls, dispatched, visited>>
    /\ UNCHANGED others
    /\ UNCHANGED storage

\* lines 110-112: the loop is over; total_ticks = max_tick, the time is read, return
Finish ==
    /\ pc = "finish"
    /\ \E ms \in ElapsedMs :
          result' = [result EXCEPT !.total_ticks = timeline.max_tick,
                                   !.execution_time_ms = ms]
    /\ pc' = "done"
    /\ UNCHANGED <<spec, tests, timeline, event, tick, idx, player, calls, dispatched, visited>>
    /\ UNCHANGED others
    /\ UNCHANGED storage

Next ==
    \/ StartTest
    \/ Dispatch
    \/ DoTick
    \/ Finish

Spec == Init /\ [][Next]_vars

\* either entry point of the library is called: run_test or the aggregate's API
SpecAll == (Init \/ InitAgg) /\ [][Next \/ NextAgg]_vars

(***************************************************************************)
(* run_test over specs with a player: a setup that may configure the       *)
(* player, and a timeline of UseItemOn, SetSlot and SelectHotbar actions   *)
(* at ticks 0 and 1.                                                       *)
(***************************************************************************)
\* fn default_selected_hotbar() -> u8
default_selected_hotbar == 1

\* PlayerConfig as serde builds it: selected_hotbar is None when the field is not written
PlayerConfig(inventory, selected_hotbar) ==
    [inventory       |-> inventory,
     selected_hotbar |-> IF selected_hotbar = None THEN default_selected_hotbar
                         ELSE selected_hotbar.v]

SetupSpec(cleanup, player_config) == [cleanup |-> cleanup, player |-> player_config]

UseItemOn(pos, face, item) == [do |-> "use_item_on", pos |-> pos, face |-> face, item |-> item]
SetSlot(slot, item, count) == [do |-> "set_slot", slot |-> slot, item |-> item, count |-> count]
SelectHotbar(slot) == [do |-> "select_hotbar", slot |-> slot]

Honeycomb == <<"minecraft:", "honeycomb">>
EmptyId == <<"empty">>

PlayerActions ==
    {UseItemOn(Origin, "Top", Some(Honeycomb)),
     UseItemOn(Origin, "Top", Some(EmptyId)),
     UseItemOn(Pos(1), "North", None),
     SetSlot("Hotbar2", Some(Honeycomb), 3),
     SetSlot("OffHand", None, 1),
     SelectHotbar(2)}

\* the hotbar slots written in the setups; a setup may also leave the field out
WrittenHotbars == {3}

Inventories ==
    {<< >>,
     "Hotbar1" :> Item_with_count(Honeycomb, 1),
     ("Hotbar2" :> Item_with_count(Honeycomb, 2)) @@ ("OffHand" :> Item_empty)}

PlayerSetups ==
    {None, Some(SetupSpec(None, None))}
    \cup {Some(SetupSpec(None, Some(PlayerConfig(inv, h)))) :
              inv \in Inventories, h \in {None} \cup {Some(n) : n \in WrittenHotbars}}

InitPlayer ==
    /\ \E n \in 0..MaxSched :
          \E tl \in [1..n -> [at : {Single(0), Single(1)}, action_type : PlayerActions]],
             setup \in PlayerSetups :
                spec = TestSpec("t", setup, tl, << >>)
    /\ tests = << >>
    /\ timeline = None
    /\ event = None
    /\ pc = "start"
    /\ tick = 0
    /\ idx = 0
    /\ result = None
    /\ player = None
    /\ calls = << >>
    /\ dispatched = << >>
    /\ visited = << >>
    /\ NoBatch
    /\ call = None
    /\ NoLoader

SpecPlayer == InitPlayer /\ [][Next]_vars

\* run_test over timelines that mix block actions, an Assert and player actions
LazyActions ==
    {Place(Origin, Stone), Assert_(Checks(1)), UseItemOn(Origin, "Top", Some(Honeycomb)),
     SelectHotbar(2)}

InitLazy ==
    /\ \E n \in 0..MaxSched :
          \E tl \in [1..n -> [at : {Single(0), Single(1)}, action_type : LazyActions]],
             setup \in {None, Some(SetupSpec(None, None)),
                        Some(SetupSpec(None, Some(PlayerConfig(<< >>, None))))} :
                spec = TestSpec("t", setup, tl, << >>)
    /\ tests = << >>
    /\ timeline = None
    /\ event = None
    /\ pc = "start"
    /\ tick = 0
    /\ idx = 0
    /\ result = None
    /\ player = None
    /\ calls = << >>
    /\ dispatched = << >>
    /\ visited = << >>
    /\ NoBatch
    /\ call = None
    /\ NoLoader

SpecLazy == InitLazy /\ [][Next]_vars

\* the ticks of the entries of a swept timeline: one tick, no tick, the same tick twice,
\* two ticks out of order
SweepTicks == {Single(0), Single(2), Multiple(<< >>), Multiple(<<1, 1>>), Multiple(<<2, 0>>)}

SweepActions == {Place(Origin, Stone), Assert_(Checks(1))}

\* run_test of a spec of at most MaxSched entries, some of them at several ticks
InitSweep ==
    /\ \E n \in 0..MaxSched :
          \E tl \in [1..n -> [at : SweepTicks, action_type : SweepActions]] :
             spec = TestSpec("t", None, tl, << >>)
    /\ tests = << >>
    /\ timeline = None
    /\ event = None
    /\ pc = "start"
    /\ tick = 0
    /\ idx = 0
    /\ result = None
    /\ player = None
    /\ calls = << >>
    /\ dispatched = << >>
    /\ visited = << >>
    /\ NoBatch
    /\ call = None
    /\ NoLoader

SpecSweep == InitSweep /\ [][Next]_vars

(***************************************************************************)
(* runner.rs: TestRunner::run_tests, and results.rs: TestSummary.          *)
(*   pc = "batch"     between two calls of run_test                        *)
(*   pc = "returned"  run_tests has returned `summary`                     *)
(*   pc = "unwound"   a panic has unwound run_test and run_tests           *)
(* The adapter's operations return plain values (get_block a Block,        *)
(* create_player a player, the others nothing that the runner reads), so   *)
(* an operation that fails does so by panicking.                           *)
(***************************************************************************)
\* Iterator::sum over u64 values
RECURSIVE Sum(_)
Sum(s) == IF s = << >> THEN 0 ELSE Head(s) + Sum(Tail(s))

\* TestSummary::from_results
from_results(rs) ==
    LET total_tests == Len(rs)
        passed_tests == Cardinality({i \in DOMAIN rs : rs[i].success})
    IN  [results      |-> rs,
         total_tests  |-> total_tests,
         passed_tests |-> passed_tests,
         failed_tests |-> total_tests - passed_tests,
         total_execution_time_ms |-> Sum([i \in DOMAIN rs |-> rs[i].execution_time_ms])]

\* mutant: a summary without tests has not passed
all_passed_NonEmpty(summ) == summ.failed_tests = 0 /\ summ.total_tests > 0

\* TestSummary::all_passed
all_passed(summ) == summ.failed_tests = 0

\* TestSummary::success_rate: the f64 is given by the quotient num / den it is computed
\* from, (passed_tests / total_tests) * 100.0, and is 0.0 for a summary without tests
success_rate(summ) ==
    IF summ.total_tests = 0
    THEN [num |-> 0, den |-> 1]
    ELSE [num |-> summ.passed_tests * 100, den |-> summ.total_tests]

BatchNames == {"a", "b"}

\* the timelines of the specs of a batch: at most a Place and an Assert with one check
BatchTimelines ==
    {<< >>,
     <<[at |-> Single(0), action_type |-> Assert_(Checks(1))]>>,
     <<[at |-> Single(1), action_type |-> Assert_(Checks(1))]>>,
     <<[at |-> Single(0), action_type |-> Place(Origin, Stone)],
       [at |-> Single(1), action_type |-> Assert_(Checks(1))]>>}

BatchSpecs == {TestSpec(name, None, tl, << >>) : name \in BatchNames, tl \in BatchTimelines}

InitBatch ==
    /\ \E n \in 0..MaxTests : \E batch \in [1..n -> BatchSpecs] : specs = Some(batch)
    /\ results = << >>
    /\ summary = None
    /\ logs = << >>
    /\ failed = FALSE
    /\ call = None
    /\ spec = None
    /\ tests = << >>
    /\ timeline = None
    /\ event = None
    /\ pc = "batch"
    /\ tick = 0
    /\ idx = 0
    /\ result = None
    /\ player = None
    /\ calls = << >>
    /\ dispatched = << >>
    /\ visited = << >>
    /\ NoLoader

\* specs.iter().map(|spec| self.run_test(spec)): run_test is called with the next spec
NextTest ==
    /\ pc = "batch"
    /\ Len(results) < Len(specs.v)
    /\ spec' = specs.v[Len(results) + 1]
    /\ pc' = "start"
    /\ tests' = << >>
    /\ timeline' = None
    /\ tick' = 0
    /\ idx' = 0
    /\ result' = None
    /\ player' = None
    /\ calls' = << >>
    /\ dispatched' = << >>
    /\ visited' = << >>
    /\ UNCHANGED <<event, specs, results, summary, logs, failed, call>>
    /\ UNCHANGED storage

\* .collect(): the result run_test has returned is pushed
Collect ==
    /\ specs # None
    /\ pc = "done"
    /\ results' = Append(results, result)
    /\ logs' = Append(logs, calls)
    /\ pc' = "batch"
    /\ UNCHANGED <<spec, tests, timeline, event, tick, idx, result, player, calls, dispatched,
                   visited, specs, summary, failed, call>>
    /\ UNCHANGED storage

\* mutant: the batch also ends after a failed test
Summarize_StopOnFailure ==
    /\ pc = "batch"
    /\ \/ Len(results) = Len(specs.v)
       \/ results # << >> /\ ~results[Len(results)].success
    /\ summary' = from_results(results)
    /\ pc' = "returned"
    /\ UNCHANGED <<spec, tests, timeline, event, tick, idx, result, player, calls, dispatched,
                   visited, specs, results, logs, failed, call>>
    /\ UNCHANGED storage

\* TestSummary::from_results(results), once the iterator is exhausted
Summarize ==
    /\ pc = "batch"
    /\ Len(results) = Len(specs.v)
    /\ summary' = from_results(results)
    /\ pc' = "returned"
    /\ UNCHANGED <<spec, tests, timeline, event, tick, idx, result, player, calls, dispatched,
                   visited, specs, results, logs, failed, call>>
    /\ UNCHANGED storage

\* the next operation of the world or of the player fails: the panic leaves run_test
\* and run_tests, neither of which catches it
AdapterFail ==
    /\ specs # None
    /\ pc = "loop"
    /\ failed' = TRUE
    /\ pc' = "unwound"
    /\ UNCHANGED <<spec, tests, timeline, event, tick, idx, result, player, calls, dispatched,
                   visited, specs, results, summary, logs, call>>
    /\ UNCHANGED storage

NextBatch ==
    \/ NextTest
    \/ StartTest
    \/ Dispatch
    \/ DoTick
    \/ Finish
    \/ Collect
    \/ Summarize
    \/ AdapterFail

SpecBatch == InitBatch /\ [][NextBatch]_vars

(***************************************************************************)
(* Calls of pure functions: `call` holds the function's name, its          *)
(* arguments and, once the call has returned, Some(result).                *)
(***************************************************************************)
\* neither run_test, run_tests nor the aggregate is in use
NoRun ==
    /\ spec = None
    /\ tests = << >>
    /\ timeline = None
    /\ event = None
    /\ tick = 0
    /\ idx = 0
    /\ result = None
    /\ player = None
    /\ calls = << >>
    /\ dispatched = << >>
    /\ visited = << >>
    /\ NoBatch
    /\ NoLoader

Call(fn, args) == [fn |-> fn, args |-> args, ret |-> None]

\* the functions from a subset of the keys K to the values V
PartialMaps(K, V) == UNION {[D -> V] : D \in SUBSET K}

\* block identifiers: prefixed, unprefixed, another namespace, the prefix twice, the
\* prefix alone and the empty string
MatchIds ==
    {<<"minecraft:", "lever">>, <<"lever">>, <<"other:", "lever">>, <<"minecraft:", "stone">>,
     <<"minecraft:", "minecraft:", "lever">>, <<"minecraft:">>, << >>}

MatchBlocks ==
    {Block(id, properties) :
        id \in MatchIds, properties \in PartialMaps({"powered", "face"}, {"true", "false"})}

InitMatch ==
    /\ \E actual \in MatchBlocks, expected \in MatchBlocks :
          call = Call("block_matches", <<actual, expected>>)
    /\ pc = "call"
    /\ NoRun

\* block_matches(&actual, &expected)
CallBlockMatches ==
    /\ pc = "call"
    /\ call.fn = "block_matches"
    /\ call' = [call EXCEPT !.ret = Some(block_matches(call.args[1], call.args[2]))]
    /\ pc' = "returned"
    /\ UNCHANGED <<spec, tests, timeline, event, tick, idx, result, player, calls, dispatched,
                   visited, specs, results, summary, logs, failed>>
    /\ UNCHANGED storage

SpecMatch == InitMatch /\ [][CallBlockMatches]_vars

(***************************************************************************)
(* spatial.rs.  The offsets are i32: an operation whose exact result does  *)
(* not fit panics when the build has overflow checks (the default of a     *)
(* debug build) and wraps modulo 2^32 otherwise (the default of a release  *)
(* build).  An i32 operation yields its wrapped value v and whether it     *)
(* overflowed, o.                                                          *)
(***************************************************************************)
I32Max == 2147483647
I32Min == -I32Max - 1

I32(v, o) == [v |-> v, o |-> o]

\* a + b on i32
wrapping_add(a, b) ==
    CASE a >= 0 /\ b >= 0 /\ a > I32Max - b -> I32(((a + I32Min) + b) + I32Min, TRUE)
      [] a < 0 /\ b < 0 /\ a < I32Min - b   -> I32(((a - I32Min) + b) - I32Min, TRUE)
      [] OTHER                              -> I32(a + b, FALSE)

\* a - b on i32
wrapping_sub(a, b) ==
    CASE a >= 0 /\ b < 0 /\ a > I32Max + b -> I32(((a + I32Min) - b) + I32Min, TRUE)
      [] a < 0 /\ b > 0 /\ a < I32Min + b  -> I32(((a - I32Min) - b) - I32Min, TRUE)
      [] OTHER                             -> I32(a - b, FALSE)

\* k * c on i32, k being a grid coordinate or its negation: c added, or subtracted, |k| times
RECURSIVE wrapping_mul(_, _)
wrapping_mul(k, c) ==
    IF k = 0 THEN I32(0, FALSE)
    ELSE IF k > 0
         THEN LET r == wrapping_mul(k - 1, c)
                  s == wrapping_add(r.v, c)
              IN  I32(s.v, r.o \/ s.o)
         ELSE LET r == wrapping_mul(k + 1, c)
                  s == wrapping_sub(r.v, c)
              IN  I32(s.v, r.o \/ s.o)

Panic == [tag |-> "Panic"]
Returned(v) == [tag |-> "Returned", v |-> v]

\* (total_tests as f64).sqrt().ceil(): exact for the totals of the model
CeilSqrt(n) == CHOOSE g \in 0..n : g * g >= n /\ (g > 0 => (g - 1) * (g - 1) < n)

\* mutant: the column is used for the row as well
grid_z_Column(test_index, grid_size) == test_index % grid_size

\* let grid_z = (test_index as i32) / grid_size
grid_z(test_index, grid_size) == test_index \div grid_size

\* mutant: an even grid is centered like an odd one
base_offset_Centered(grid_size, cell_size) ==
    wrapping_mul(-(grid_size \div 2), cell_size)

\* let base_offset = if grid_size % 2 == 1 { ... } else { ... }
base_offset(grid_size, cell_size) ==
    IF grid_size % 2 = 1
    THEN wrapping_mul(-(grid_size \div 2), cell_size)
    ELSE wrapping_mul(-(grid_size \div 2 - 1), cell_size)

\* calculate_test_offset; `% grid_size` panics on a grid of size 0
calculate_test_offset(test_index, total_tests, cell_size, overflow_checks) ==
    LET grid_size == CeilSqrt(total_tests)
    IN  IF grid_size = 0 THEN Panic
        ELSE LET grid_x == test_index % grid_size
                 base == base_offset(grid_size, cell_size)
                 mx == wrapping_mul(grid_x, cell_size)
                 mz == wrapping_mul(grid_z(test_index, grid_size), cell_size)
                 x == wrapping_add(base.v, mx.v)
                 z == wrapping_add(base.v, mz.v)
             IN  IF overflow_checks /\ (base.o \/ mx.o \/ mz.o \/ x.o \/ z.o)
                 THEN Panic
                 ELSE Returned(<<x.v, 0, z.v>>)

\* calculate_grid_dimensions
calculate_grid_dimensions(total_tests) == <<CeilSqrt(total_tests), CeilSqrt(total_tests)>>

\* calculate_all_offsets: (0..total_tests).map(|i| calculate_test_offset(i, ..)).collect()
calculate_all_offsets(total_tests, cell_size, overflow_checks) ==
    LET offsets == [i \in 1..total_tests |->
                      calculate_test_offset(i - 1, total_tests, cell_size, overflow_checks)]
    IN  IF \E i \in DOMAIN offsets : offsets[i] = Panic THEN Panic
        ELSE Returned([i \in DOMAIN offsets |-> offsets[i].v])

CellSizes == {I32Min, -16, 0, 1, 16, I32Max}

CallBuilt(fn, args, overflow_checks) ==
    [fn |-> fn, args |-> args, ret |-> None, overflow_checks |-> overflow_checks]

InitSpatial ==
    /\ \E test_index \in 0..MaxTotal, total_tests \in 0..MaxTotal, cell_size \in CellSizes,
          overflow_checks \in BOOLEAN :
          \/ call = CallBuilt("calculate_test_offset",
                              <<test_index, total_tests, cell_size>>, overflow_checks)
          \/ call = CallBuilt("calculate_all_offsets", <<total_tests, cell_size>>, overflow_checks)
          \/ call = CallBuilt("calculate_grid_dimensions", <<total_tests>>, overflow_checks)
    /\ pc = "call"
    /\ NoRun

CallTestOffset ==
    /\ pc = "call"
    /\ call.fn = "calculate_test_offset"
    /\ call' = [call EXCEPT !.ret = Some(calculate_test_offset(call.args[1], call.args[2],
                                              call.args[3], call.overflow_checks))]
    /\ pc' = "returned"
    /\ UNCHANGED <<spec, tests, timeline, event, tick, idx, result, player, calls, dispatched,
                   visited, specs, results, summary, logs, failed>>
    /\ UNCHANGED storage

CallAllOffsets ==
    /\ pc = "call"
    /\ call.fn = "calculate_all_offsets"
    /\ call' = [call EXCEPT !.ret = Some(calculate_all_offsets(call.args[1], call.args[2],
                                              call.overflow_checks))]
    /\ pc' = "returned"
    /\ UNCHANGED <<spec, tests, timeline, event, tick, idx, result, player, calls, dispatched,
                   visited, specs, results, summary, logs, failed>>
    /\ UNCHANGED storage

CallGridDimensions ==
    /\ pc = "call"
    /\ call.fn = "calculate_grid_dimensions"
    /\ call' = [call EXCEPT !.ret = Some(Returned(calculate_grid_dimensions(call.args[1])))]
    /\ pc' = "returned"
    /\ UNCHANGED <<spec, tests, timeline, event, tick, idx, result, player, calls, dispatched,
                   visited, specs, results, summary, logs, failed>>
    /\ UNCHANGED storage

NextSpatial ==
    \/ CallTestOffset
    \/ CallAllOffsets
    \/ CallGridDimensions

SpecSpatial == InitSpatial /\ [][NextSpatial]_vars

(***************************************************************************)
(* test_spec.rs: TestSpec::validate and TestSpec::from_file.  The          *)
(* coordinates are i32 and the dimensions are computed in i32 before the   *)
(* region is looked at: `max - min + 1` panics when it overflows and the   *)
(* build has overflow checks, and wraps otherwise.  anyhow::Result<()> is  *)
(* Ok or Err(e), e naming the bail! that produced it.                      *)
(***************************************************************************)
Ok == [tag |-> "Ok"]
Err(e) == [tag |-> "Err", e |-> e]

MAX_WIDTH == 15
MAX_HEIGHT == 384
MAX_DEPTH == 15

CleanupSpec(region) == [region |-> region]

BlockPlacement(pos, block) == [pos |-> pos, block |-> block]
PlaceEach(blocks) == [do |-> "place_each", blocks |-> blocks]
Fill(region, with) == [do |-> "fill", region |-> region, with |-> with]
Remove(pos) == [do |-> "remove", pos |-> pos]

\* max - min + 1 on i32
Dimension(min, max) ==
    LET d == wrapping_sub(max, min)
        s == wrapping_add(d.v, 1)
    IN  I32(s.v, d.o \/ s.o)

\* TestSpec::validate_position
validate_position(pos, region) ==
    LET min == region[1]
        max == region[2]
    IN  IF \/ pos[1] < min[1]
           \/ pos[1] > max[1]
           \/ pos[2] < min[2]
           \/ pos[2] > max[2]
           \/ pos[3] < min[3]
           \/ pos[3] > max[3]
        THEN Err("OutsideRegion")
        ELSE Ok

\* the positions of an entry that validate hands to validate_position, in order
ValidatedPositions(action) ==
    CASE action.do = "place"       -> <<action.pos>>
      [] action.do = "place_each"  -> [j \in DOMAIN action.blocks |-> action.blocks[j].pos]
      [] action.do = "fill"        -> <<action.region[1], action.region[2]>>
      [] action.do = "remove"      -> <<action.pos>>
      [] action.do = "assert"      -> [j \in DOMAIN action.checks |-> action.checks[j].pos]
      [] action.do = "use_item_on" -> <<action.pos>>
      [] action.do \in {"set_slot", "select_hotbar"} -> << >>

\* TestSpec::validate
validate(test, overflow_checks) ==
    IF test.setup = None THEN Returned(Err("MissingSetup"))
    ELSE IF test.setup.v.cleanup = None THEN Returned(Err("MissingCleanup"))
    ELSE LET region == test.setup.v.cleanup.v.region
             min == region[1]
             max == region[2]
             width == Dimension(min[1], max[1])
             height == Dimension(min[2], max[2])
             depth == Dimension(min[3], max[3])
             positions == Concat([e \in DOMAIN test.timeline |->
                                     ValidatedPositions(test.timeline[e].action_type)])
         IN  IF overflow_checks /\ (width.o \/ height.o \/ depth.o) THEN Panic
             ELSE IF min[1] > max[1] \/ min[2] > max[2] \/ min[3] > max[3]
                  THEN Returned(Err("InvalidRegion"))
             ELSE IF width.v > MAX_WIDTH THEN Returned(Err("Width"))
             ELSE IF height.v > MAX_HEIGHT THEN Returned(Err("Height"))
             ELSE IF depth.v > MAX_DEPTH THEN Returned(Err("Depth"))
             ELSE IF \E j \in DOMAIN positions : validate_position(positions[j], region) # Ok
                  THEN Returned(Err("OutsideRegion"))
             ELSE Returned(Ok)

IsErr(r) == r.tag = "Returned" /\ r.v.tag = "Err"

\* a file: None when it cannot be read, otherwise what serde_json::from_str makes of its
\* content, an Err or the Ok of a TestSpec
Malformed == Err("Json")
Parsed(test) == [tag |-> "Ok", v |-> test]

\* TestSpec::from_file: the spec, or the error of the read, of the parse or of validate
from_file(file, overflow_checks) ==
    IF file = None THEN Returned(Err("Io"))
    ELSE IF file.v = Malformed THEN Returned(Malformed)
    ELSE LET validated == validate(file.v.v, overflow_checks)
         IN  IF validated = Panic THEN Panic
             ELSE IF validated.v = Ok THEN Returned(Parsed(file.v.v))
             ELSE validated

\* the two coordinates of a region on one axis: a single block, the greatest extent
\* allowed, one more, an inverted pair, and extents that do not fit i32
WidthSpans == {<<0, 0>>, <<0, 14>>, <<0, 15>>, <<1, 0>>, <<-2, I32Max>>,
               <<I32Min, I32Max>>, <<I32Max, I32Min>>}
HeightSpans == {<<0, 0>>, <<0, 383>>, <<0, 384>>, <<1, 0>>}
DepthSpans == {<<0, 0>>, <<0, 14>>, <<0, 15>>}

ValidateRegions ==
    {<< <<x[1], y[1], z[1]>>, <<x[2], y[2], z[2]>> >> :
        x \in WidthSpans, y \in HeightSpans, z \in DepthSpans}

ValidateSetups ==
    {None, Some(SetupSpec(None, None))}
    \cup {Some(SetupSpec(Some(CleanupSpec(region)), None)) : region \in ValidateRegions}

\* the positions written in the timelines: the origin is in every region that is not
\* inverted, its neighbour on the x axis only in some
ValidatePositions == {Origin, Pos(1)}

\* the sequences of at most n elements of S
SeqUpTo(S, n) == UNION {[1..k -> S] : k \in 0..n}

ValidateActions ==
    {Place(pos, Stone) : pos \in ValidatePositions}
    \cup {PlaceEach(blocks) :
             blocks \in SeqUpTo({BlockPlacement(pos, Stone) : pos \in ValidatePositions},
                                MaxChecks)}
    \cup {Fill(<<a, b>>, Stone) : a \in ValidatePositions, b \in ValidatePositions}
    \cup {Remove(pos) : pos \in ValidatePositions}
    \cup {Assert_(checks) :
             checks \in SeqUpTo({BlockCheck(pos, Stone) : pos \in ValidatePositions},
                                MaxChecks)}
    \cup {UseItemOn(pos, "Top", None) : pos \in ValidatePositions}
    \cup {SetSlot("Hotbar1", Some(Honeycomb), 1), SelectHotbar(1)}

\* a timeline is empty, one entry, or an entry without positions followed by one entry
ValidateTimelines ==
    {<< >>}
    \cup {<<[at |-> Single(0), action_type |-> a]>> : a \in ValidateActions}
    \cup {<<[at |-> Single(0), action_type |-> SelectHotbar(1)],
            [at |-> Single(1), action_type |-> a]>> : a \in ValidateActions}

ValidateSpecs ==
    {TestSpec("t", setup, tl, << >>) : setup \in ValidateSetups, tl \in ValidateTimelines}

ValidateFiles == {None, Some(Malformed)} \cup {Some(Parsed(test)) : test \in ValidateSpecs}

InitValidate ==
    /\ \E overflow_checks \in BOOLEAN :
          \/ \E test \in ValidateSpecs :
                call = CallBuilt("validate", <<test>>, overflow_checks)
          \/ \E file \in ValidateFiles :
                call = CallBuilt("from_file", <<file>>, overflow_checks)
    /\ pc = "call"
    /\ NoRun

\* spec.validate()
CallValidate ==
    /\ pc = "call"
    /\ call.fn = "validate"
    /\ call' = [call EXCEPT !.ret = Some(validate(call.args[1], call.overflow_checks))]
    /\ pc' = "returned"
    /\ UNCHANGED <<spec, tests, timeline, event, tick, idx, result, player, calls, dispatched,
                   visited, specs, results, summary, logs, failed>>
    /\ UNCHANGED storage

\* TestSpec::from_file(&path)
CallFromFile ==
    /\ pc = "call"
    /\ call.fn = "from_file"
    /\ call' = [call EXCEPT !.ret = Some(from_file(call.args[1], call.overflow_checks))]
    /\ pc' = "returned"
    /\ UNCHANGED <<spec, tests, timeline, event, tick, idx, result, player, calls, dispatched,
                   visited, specs, results, summary, logs, failed>>
    /\ UNCHANGED storage

NextValidate ==
    \/ CallValidate
    \/ CallFromFile

SpecValidate == InitValidate /\ [][NextValidate]_vars

(***************************************************************************)
(* Placing loaded specs in one shared world, as spatial.rs provides for:   *)
(* each file is loaded with from_file, the spec at index i of total gets   *)
(* calculate_test_offset_default(i, total), and its cleanup region is      *)
(* moved by apply_offset_to_region.  No function of the crate chains the   *)
(* three; `call` holds the files, the indices and the total, `tests` the   *)
(* (TestSpec, offset) pairs, and the call returns the moved regions.       *)
(***************************************************************************)
DEFAULT_CELL_SIZE == 16

\* calculate_test_offset_default
calculate_test_offset_default(test_index, total_tests, overflow_checks) ==
    calculate_test_offset(test_index, total_tests, DEFAULT_CELL_SIZE, overflow_checks)

\* apply_offset: a per-axis i32 addition
apply_offset(pos, offset, overflow_checks) ==
    LET sum == [axis \in 1..3 |-> wrapping_add(pos[axis], offset[axis])]
    IN  IF overflow_checks /\ (\E axis \in 1..3 : sum[axis].o)
        THEN Panic
        ELSE Returned([axis \in 1..3 |-> sum[axis].v])

\* apply_offset_to_region
apply_offset_to_region(region, offset, overflow_checks) ==
    LET min == apply_offset(region[1], offset, overflow_checks)
        max == apply_offset(region[2], offset, overflow_checks)
    IN  IF min = Panic \/ max = Panic THEN Panic ELSE Returned(<<min.v, max.v>>)

\* TestSpec::cleanup_region
cleanup_region(test) ==
    IF test.setup = None \/ test.setup.v.cleanup = None
    THEN Panic
    ELSE Returned(test.setup.v.cleanup.v.region)

\* cleanup regions: a full cell at the origin, the same one cell further on x and on z,
\* a column of full height, a region one block too wide, one at the end of the x axis
\* and one as wide as the axis
LayoutRegions ==
    {<< <<0, 0, 0>>, <<14, 0, 14>> >>,
     << <<16, 0, 0>>, <<30, 0, 14>> >>,
     << <<0, 0, 16>>, <<14, 0, 30>> >>,
     << <<0, 0, 0>>, <<0, 383, 0>> >>,
     << <<0, 0, 0>>, <<15, 0, 0>> >>,
     << <<I32Max - 14, 0, 0>>, <<I32Max, 0, 0>> >>,
     << <<I32Min, 0, 0>>, <<I32Max, 0, 0>> >>}

LayoutFiles ==
    {Some(Parsed(TestSpec(name, Some(SetupSpec(Some(CleanupSpec(region)), None)), << >>, << >>))) :
        name \in {"t"}, region \in LayoutRegions}

InitLayout ==
    /\ \E overflow_checks \in BOOLEAN, total_tests \in 1..MaxTotal :
       \E i \in 0..(total_tests - 1), j \in 0..(total_tests - 1) :
       \E a \in LayoutFiles, b \in LayoutFiles :
          /\ i < j
          /\ call = CallBuilt("layout", << <<a, b>>, <<i, j>>, total_tests >>, overflow_checks)
    /\ pc = "load"
    /\ NoRun

\* TestSpec::from_file on every file: the layout goes on with the specs when all load
LoadSpecs ==
    /\ pc = "load"
    /\ LET files == call.args[1]
           loaded == [k \in DOMAIN files |-> from_file(files[k], call.overflow_checks)]
       IN  IF \E k \in DOMAIN loaded : loaded[k] = Panic
           THEN /\ pc' = "panicked"
                /\ specs' = specs
           ELSE IF \E k \in DOMAIN loaded : IsErr(loaded[k])
           THEN /\ pc' = "rejected"
                /\ specs' = specs
           ELSE /\ pc' = "place"
                /\ specs' = Some([k \in DOMAIN loaded |-> loaded[k].v.v])
    /\ UNCHANGED <<spec, tests, timeline, event, tick, idx, result, player, calls, dispatched,
                   visited, results, summary, logs, failed, call>>
    /\ UNCHANGED storage

\* calculate_test_offset_default(index, total) for every loaded spec
AssignOffsets ==
    /\ pc = "place"
    /\ LET offsets == [k \in DOMAIN specs.v |->
                          calculate_test_offset_default(call.args[2][k], call.args[3],
                                                        call.overflow_checks)]
       IN  IF \E k \in DOMAIN offsets : offsets[k] = Panic
           THEN /\ pc' = "panicked"
                /\ tests' = tests
           ELSE /\ pc' = "shift"
                /\ tests' = [k \in DOMAIN specs.v |-> <<specs.v[k], offsets[k].v>>]
    /\ UNCHANGED <<spec, timeline, event, tick, idx, result, player, calls, dispatched,
                   visited, specs, results, summary, logs, failed, call>>
    /\ UNCHANGED storage

\* apply_offset_to_region(spec.cleanup_region(), offset) for every placed spec
OffsetRegions ==
    /\ pc = "shift"
    /\ LET regions == [k \in DOMAIN tests |->
                          apply_offset_to_region(cleanup_region(tests[k][1]).v, tests[k][2],
                                                 call.overflow_checks)]
       IN  IF \E k \in DOMAIN regions : regions[k] = Panic
           THEN /\ pc' = "panicked"
                /\ call' = call
           ELSE /\ pc' = "returned"
                /\ call' = [call EXCEPT !.ret = Some(Returned([k \in DOMAIN regions |->
                                                                 regions[k].v]))]
    /\ UNCHANGED <<spec, tests, timeline, event, tick, idx, result, player, calls, dispatched,
                   visited, specs, results, summary, logs, failed>>
    /\ UNCHANGED storage

NextLayout ==
    \/ LoadSpecs
    \/ AssignOffsets
    \/ OffsetRegions

SpecLayout == InitLayout /\ [][NextLayout]_vars

(***************************************************************************)
(* results.rs: a TestResult from TestResult::new on, under add_assertion   *)
(* and with_failure_reason.                                                *)
(*   pc = "result"   the TestResult exists                                 *)
(***************************************************************************)
\* the assertions added: a Success at any tick, a Failure at tick 0 or 1
ResultAssertions ==
    {Success(t) : t \in Ticks}
    \cup {Failure(AssertFailure(t, Origin, InfoBlock(Stone), InfoBlock(Dirt))) : t \in {0, 1}}

\* TestResult::new("t")
InitResult ==
    /\ result = TestResult_new("t")
    /\ pc = "result"
    /\ spec = None
    /\ tests = << >>
    /\ timeline = None
    /\ event = None
    /\ tick = 0
    /\ idx = 0
    /\ player = None
    /\ calls = << >>
    /\ dispatched = << >>
    /\ visited = << >>
    /\ NoBatch
    /\ call = None
    /\ NoLoader

\* result.add_assertion(assertion)
AddAssertion ==
    /\ pc = "result"
    /\ Len(result.assertions) < MaxAssertions
    /\ \E assertion \in ResultAssertions : result' = add_assertion(result, assertion)
    /\ UNCHANGED <<spec, tests, timeline, event, pc, tick, idx, player, calls, dispatched,
                   visited>>
    /\ UNCHANGED others
    /\ UNCHANGED storage

\* result.with_failure_reason("reason")
WithFailureReason ==
    /\ pc = "result"
    /\ result' = with_failure_reason(result, "reason")
    /\ UNCHANGED <<spec, tests, timeline, event, pc, tick, idx, player, calls, dispatched,
                   visited>>
    /\ UNCHANGED others
    /\ UNCHANGED storage

NextResult ==
    \/ AddAssertion
    \/ WithFailureReason

SpecResult == InitResult /\ [][NextResult]_vars

(***************************************************************************)
(* results.rs: TestSummary::from_results on any Vec<TestResult>, then      *)
(* all_passed and success_rate on the summary.  The execution times are    *)
(* milliseconds of wall-clock time, and their u64 sum is exact.            *)
(*   pc = "call"      from_results is called with the results              *)
(*   pc = "summary"   from_results has returned `summary`                  *)
(*   pc = "returned"  a method of the summary has returned                 *)
(***************************************************************************)
\* the execution times of the results
SummaryTimes == {0, 1000, 2000}

\* a result that passed, one with a failed assertion, one with a failure reason
SummaryResults ==
    UNION {{with_execution_time(TestResult_new("t"), ms),
            with_execution_time(
                add_assertion(TestResult_new("t"),
                              Failure(AssertFailure(0, Origin, InfoBlock(Stone),
                                                    InfoBlock(Dirt)))), ms),
            with_execution_time(with_failure_reason(TestResult_new("t"), "reason"), ms)} :
           ms \in SummaryTimes}

InitSummary ==
    /\ \E n \in 0..MaxTests : \E rs \in [1..n -> SummaryResults] :
          call = Call("from_results", <<rs>>)
    /\ pc = "call"
    /\ NoRun

\* TestSummary::from_results(results)
CallFromResults ==
    /\ pc = "call"
    /\ call.fn = "from_results"
    /\ summary' = from_results(call.args[1])
    /\ call' = [call EXCEPT !.ret = Some(from_results(call.args[1]))]
    /\ pc' = "summary"
    /\ UNCHANGED <<spec, tests, timeline, event, tick, idx, result, player, calls, dispatched,
                   visited, specs, results, logs, failed>>
    /\ UNCHANGED storage

\* summary.all_passed()
CallAllPassed ==
    /\ pc = "summary"
    /\ call' = [Call("all_passed", <<summary>>) EXCEPT !.ret = Some(all_passed(summary))]
    /\ pc' = "returned"
    /\ UNCHANGED <<spec, tests, timeline, event, tick, idx, result, player, calls, dispatched,
                   visited, specs, results, summary, logs, failed>>
    /\ UNCHANGED storage

\* summary.success_rate()
CallSuccessRate ==
    /\ pc = "summary"
    /\ call' = [Call("success_rate", <<summary>>) EXCEPT !.ret = Some(success_rate(summary))]
    /\ pc' = "returned"
    /\ UNCHANGED <<spec, tests, timeline, event, tick, idx, result, player, calls, dispatched,
                   visited, specs, results, summary, logs, failed>>
    /\ UNCHANGED storage

NextSummary ==
    \/ CallFromResults
    \/ CallAllPassed
    \/ CallSuccessRate

SpecSummary == InitSummary /\ [][NextSummary]_vars

(***************************************************************************)
(* run_test over specs that change the world with Fill, PlaceEach and      *)
(* Remove: a Fill between any two corners, alone or after a Place at the   *)
(* same tick, or a PlaceEach followed by a Remove.                         *)
(***************************************************************************)
FillCorners == {<<x, y, z>> : x \in (-1)..MaxFill, y \in (-1)..MaxFill, z \in (-1)..MaxFill}

FillActions == {Fill(<<a, b>>, Stone) : a \in FillCorners, b \in FillCorners}

FillTimelines ==
    {<<[at |-> Single(0), action_type |-> fill]>> : fill \in FillActions}
    \cup {<<[at |-> Single(0), action_type |-> Place(Origin, Dirt)],
            [at |-> Single(0), action_type |-> fill]>> : fill \in FillActions}
    \cup {<<[at |-> Single(0),
             action_type |-> PlaceEach(<<BlockPlacement(Origin, Stone),
                                         BlockPlacement(Pos(1), Dirt)>>)],
            [at |-> Single(1), action_type |-> Remove(Origin)]>>}

InitFill ==
    /\ \E tl \in FillTimelines : spec = TestSpec("t", None, tl, << >>)
    /\ tests = << >>
    /\ timeline = None
    /\ event = None
    /\ pc = "start"
    /\ tick = 0
    /\ idx = 0
    /\ result = None
    /\ player = None
    /\ calls = << >>
    /\ dispatched = << >>
    /\ visited = << >>
    /\ NoBatch
    /\ call = None
    /\ NoLoader

SpecFill == InitFill /\ [][Next]_vars

(***************************************************************************)
(* The index of the test files by tag (index.rs), the helpers of utils.rs  *)
(* and the TestLoader (loader.rs).  A path under the test path is the      *)
(* record of its parent directories, its file stem and its extension; an   *)
(* extension is a sequence of characters.  The index stores the text of a  *)
(* path, the sequence of its components.  A JSON object is the function    *)
(* from its field names to their values.  A u64 hash is the record of what *)
(* was hashed, 0 is ZeroHash: the hashes of the different lists of paths   *)
(* of the model are different, and none of them is 0.  Writing the index   *)
(* file succeeds.                                                          *)
(***************************************************************************)
OkOf(v) == [tag |-> "Ok", v |-> v]

Path(parent, stem, extension) == [parent |-> parent, stem |-> stem, extension |-> extension]

\* extensions of the file names of the model
Json == <<"j", "s", "o", "n">>
JsonUpper == <<"J", "S", "O", "N">>
Jsonnet == <<"j", "s", "o", "n", "n", "e", "t">>

\* the paths of the model, in the order of Path's Ord: ./a.json, ./index.json,
\* ./notes.jsonnet, ./sub/b.JSON
PathOrder ==
    << Path(<< >>, "a", Some(Json)), Path(<< >>, "index", Some(Json)),
       Path(<< >>, "notes", Some(Jsonnet)), Path(<<"sub">>, "b", Some(JsonUpper)) >>

\* the components of a path after the test path: directory names, then the file name
DirName(name) == [dir |-> name]
FileName(stem, extension) == [stem |-> stem, extension |-> extension]

components(path) ==
    [i \in 1..(Len(path.parent) + 1) |->
        IF i <= Len(path.parent) THEN DirName(path.parent[i])
        ELSE FileName(path.stem, path.extension)]

\* the names of the model in the byte order of their text: README, a.json, b.JSON, c.json,
\* deep, index.JSON, index.json, notes.jsonnet, sub
NameOrder ==
    << FileName("README", None), FileName("a", Some(Json)), FileName("b", Some(JsonUpper)),
       FileName("c", Some(Json)), DirName("deep"), FileName("index", Some(JsonUpper)),
       FileName("index", Some(Json)), FileName("notes", Some(Jsonnet)), DirName("sub") >>

NameRank(name) == CHOOSE i \in DOMAIN NameOrder : NameOrder[i] = name

\* Path's Ord: the components are compared one by one, a prefix coming first
RECURSIVE ComponentsLess(_, _)
ComponentsLess(a, b) ==
    IF b = << >> THEN FALSE
    ELSE IF a = << >> THEN TRUE
    ELSE IF Head(a) = Head(b) THEN ComponentsLess(Tail(a), Tail(b))
    ELSE NameRank(Head(a)) < NameRank(Head(b))

PathLess(a, b) == ComponentsLess(components(a), components(b))

\* Vec::sort of the paths of the set S
RECURSIVE sort(_)
sort(S) ==
    IF S = {} THEN << >>
    ELSE LET first == CHOOSE p \in S : \A q \in S \ {p} : PathLess(p, q)
         IN  <<first>> \o sort(S \ {first})

\* the text of a path, and the path of a text
to_string_lossy(path) ==
    <<".">> \o path.parent \o <<[stem |-> path.stem, extension |-> path.extension]>>

PathBuf_from(string) ==
    Path(SubSeq(string, 2, Len(string) - 1), string[Len(string)].stem,
         string[Len(string)].extension)

get_index_name == "index.json"
get_default_tag == "default"

to_ascii_lowercase(c) ==
    CASE c = "J" -> "j" [] c = "S" -> "s" [] c = "O" -> "o" [] c = "N" -> "n" [] OTHER -> c

eq_ignore_ascii_case(a, b) ==
    /\ Len(a) = Len(b)
    /\ \A i \in DOMAIN a : to_ascii_lowercase(a[i]) = to_ascii_lowercase(b[i])

is_json_file(path) ==
    /\ path.extension # None
    /\ eq_ignore_ascii_case(path.extension.v, Json)
    /\ ~(path.stem = "index" /\ path.extension = Some(Json))

\* the content of a file: a TestSpec in JSON with these tags, or anything else
TestFile(tags) == [kind |-> "test", tags |-> tags]
NotATest == [kind |-> "other"]

\* TestLoader::collect_test_files(path, recursive): the test path is a directory
collect_test_files(dir, recursive) ==
    IF ~dir.readable THEN Err("read_dir")
    ELSE OkOf(sort({p \in DOMAIN dir.files :
                       is_json_file(p) /\ (recursive \/ p.parent = << >>)}))

\* a path that names a directory under the test path (the test path itself: no names)
DirPath(names) == [dir |-> names]

IsPrefix(a, b) == Len(a) <= Len(b) /\ SubSeq(b, 1, Len(a)) = a

\* path.is_file() and path.is_dir(): a directory is there when a file lies under it
is_file(dir, path) == path \in DOMAIN dir.files

is_dir(dir, path) ==
    /\ "dir" \in DOMAIN path
    /\ path.dir = << >> \/ \E p \in DOMAIN dir.files : IsPrefix(path.dir, p.parent)

\* collect_non_recursive and collect_recursive: the files pushed, read_dir succeeding
collect_non_recursive(dir, path) ==
    {p \in DOMAIN dir.files : p.parent = path.dir /\ is_json_file(p)}

collect_recursive(dir, path) ==
    {p \in DOMAIN dir.files : IsPrefix(path.dir, p.parent) /\ is_json_file(p)}

\* mutant of TestLoader_collect_test_files: the directory is always searched recursively
TestLoader_collect_test_files_Deep(dir, path, recursive) ==
    IF is_file(dir, path)
    THEN OkOf(sort(IF is_json_file(path) THEN {path} ELSE {}))
    ELSE IF is_dir(dir, path)
    THEN IF ~dir.readable THEN Err("read_dir")
         ELSE OkOf(sort(collect_recursive(dir, path)))
    ELSE OkOf(sort({}))

\* TestLoader::collect_test_files(path, recursive), path a file, a directory or neither
TestLoader_collect_test_files(dir, path, recursive) ==
    IF is_file(dir, path)
    THEN OkOf(sort(IF is_json_file(path) THEN {path} ELSE {}))
    ELSE IF is_dir(dir, path)
    THEN IF ~dir.readable THEN Err("read_dir")
         ELSE OkOf(sort(IF recursive THEN collect_recursive(dir, path)
                        ELSE collect_non_recursive(dir, path)))
    ELSE OkOf(sort({}))

\* get_hash(vec)
ZeroHash == [zero |-> TRUE]
get_hash(vec) == [hashed |-> vec]

\* Index::empty()
Index_empty == [hash |-> ZeroHash, index |-> << >>, index_name |-> get_index_name]

\* serde's Serialize and Deserialize of Index: index_name is not written, and all three
\* fields are needed to read
to_string_pretty(self) == [hash |-> self.hash, index |-> self.index]

from_reader(json) ==
    IF {"hash", "index", "index_name"} \subseteq DOMAIN json
    THEN OkOf([hash |-> json.hash, index |-> json.index, index_name |-> json.index_name])
    ELSE Err("missing field")

\* Index::open_index(): file is the file at get_index_name()
open_index(file) == IF file = None THEN Err("open") ELSE from_reader(file.v)

\* self.save_index(): the file at get_index_name() afterwards
save_index(self, file) ==
    IF self.index_name = get_index_name THEN Some(to_string_pretty(self)) ELSE file

\* File::open and serde_json::from_reader of a test file
read_test(dir, path) ==
    IF path \notin DOMAIN dir.files THEN Err("open")
    ELSE IF dir.files[path].kind # "test" THEN Err("parse")
    ELSE OkOf(dir.files[path])

\* self.index.entry(tag).or_default().push(string)
Push(index, tag, string) ==
    [t \in DOMAIN index \cup {tag} |->
        IF t = tag THEN (IF tag \in DOMAIN index THEN index[tag] ELSE << >>) \o <<string>>
        ELSE index[t]]

RECURSIVE PushTags(_, _, _)
PushTags(index, tags, string) ==
    IF tags = << >> THEN index
    ELSE PushTags(Push(index, Head(tags), string), Tail(tags), string)

\* the loop of generate_index over all_files: the first error ends it
RECURSIVE IndexFiles(_, _, _)
IndexFiles(index, all_files, dir) ==
    IF all_files = << >> THEN [ret |-> Ok, index |-> index]
    ELSE LET i == Head(all_files)
             test == read_test(dir, i)
         IN  IF test.tag = "Err" THEN [ret |-> test, index |-> index]
             ELSE IndexFiles(IF test.v.tags = << >>
                             THEN Push(index, get_default_tag, to_string_lossy(i))
                             ELSE PushTags(index, test.v.tags, to_string_lossy(i)),
                             Tail(all_files), dir)

\* mutant of generate_index: the hash of the file list is not stored
generate_index_KeepHash(self, all_files, dir, file) ==
    LET r == IndexFiles(self.index, all_files, dir)
        generated == [self EXCEPT !.index = r.index]
    IN  IF r.ret # Ok THEN [ret |-> r.ret, self |-> generated, file |-> file]
        ELSE [ret |-> Ok, self |-> generated, file |-> save_index(generated, file)]

\* self.generate_index(all_files): its result, self and the index file afterwards
generate_index(self, all_files, dir, file) ==
    LET r == IndexFiles(self.index, all_files, dir)
        generated == [self EXCEPT !.index = r.index, !.hash = get_hash(all_files)]
    IN  IF r.ret # Ok
        THEN [ret |-> r.ret, self |-> [self EXCEPT !.index = r.index], file |-> file]
        ELSE [ret |-> Ok, self |-> generated, file |-> save_index(generated, file)]

\* Index::load(all_files): its result and the index file afterwards
load(all_files, dir, file) ==
    LET opened == open_index(file)
        g == generate_index(Index_empty, all_files, dir, file)
        generated == [ret |-> IF g.ret = Ok THEN OkOf(g.self) ELSE g.ret, file |-> g.file]
    IN  IF opened.tag = "Ok"
        THEN IF opened.v.hash = get_hash(all_files)
             THEN [ret |-> opened, file |-> file]
             ELSE generated
        ELSE generated

\* mutant of verify: an index is correct once it has a hash
verify_AnyHash(self, files) == self.hash # ZeroHash

\* self.verify(files)
verify(self, files) == self.hash = get_hash(files)

\* self.rebuild(files)
rebuild(self, files, dir, file) ==
    generate_index([self EXCEPT !.index = << >>], files, dir, file)

\* push of the paths not yet contained in test_paths
RECURSIVE PushUnique(_, _)
PushUnique(test_paths, paths) ==
    IF paths = << >> THEN test_paths
    ELSE PushUnique(IF PathBuf_from(Head(paths)) \in Range(test_paths) THEN test_paths
                    ELSE Append(test_paths, PathBuf_from(Head(paths))),
                    Tail(paths))

\* mutant of ScopePaths: a tag that is not in the index is skipped
RECURSIVE ScopePaths_SkipUnknown(_, _, _)
ScopePaths_SkipUnknown(self, scope, test_paths) ==
    IF scope = << >> THEN OkOf(test_paths)
    ELSE IF Head(scope) \notin DOMAIN self.index
    THEN ScopePaths_SkipUnknown(self, Tail(scope), test_paths)
    ELSE ScopePaths_SkipUnknown(self, Tail(scope),
                                PushUnique(test_paths, self.index[Head(scope)]))

\* the loop of get_test_paths_from_scopes over scope
RECURSIVE ScopePaths(_, _, _)
ScopePaths(self, scope, test_paths) ==
    IF scope = << >> THEN OkOf(test_paths)
    ELSE IF Head(scope) \notin DOMAIN self.index
    THEN Err(<<"Tag not found in index", Head(scope)>>)
    ELSE ScopePaths(self, Tail(scope), PushUnique(test_paths, self.index[Head(scope)]))

\* self.get_test_paths_from_scopes(scope)
get_test_paths_from_scopes(self, scope) == ScopePaths(self, scope, << >>)

(***************************************************************************)
(* A TestLoader over a directory that changes: files are written and       *)
(* removed and the directory is made unreadable or readable between the    *)
(* calls of the loader.  `call` holds the last call of the loader with its *)
(* result and, in old, the index file and the loader as they were before   *)
(* it; a change of the directory resets it.                                *)
(***************************************************************************)
MaxChanges == 2

\* the tag lists of the test files
LoaderTags == {<< >>, <<"fast">>, <<"fast", "slow">>}

\* what a file at path can hold
Contents(path) ==
    IF is_json_file(path) THEN {TestFile(tags) : tags \in LoaderTags} \cup {NotATest}
    ELSE {NotATest}

Dir(files) == [files |-> files, readable |-> TRUE]

\* the directories at the start
LoaderDirs ==
    {Dir(<< >>),
     Dir([p \in {PathOrder[1]} |-> TestFile(<<"fast">>)]),
     Dir([p \in {PathOrder[1], PathOrder[4]} |->
             IF p = PathOrder[1] THEN TestFile(<< >>) ELSE TestFile(<<"fast", "slow">>)])}

\* the index files at the start: none, or one written by hand for the files of dir, with
\* the index_name that save_index leaves out
LoaderIndexFiles(dir) ==
    {None} \cup
    {Some([hash |-> get_hash(collect_test_files(dir, TRUE).v),
           index |-> [t \in {"fast"} |-> <<to_string_lossy(PathOrder[1])>>],
           index_name |-> name]) : name \in {get_index_name, "elsewhere.json"}}

TestLoader(path, recursive, index) == [path |-> path, recursive |-> recursive, index |-> index]

LoaderCall(fn, args, ret) ==
    [fn |-> fn, args |-> args, ret |-> Some(ret),
     old |-> [index_file |-> index_file, loader |-> loader]]

NoEngine ==
    /\ spec = None
    /\ tests = << >>
    /\ timeline = None
    /\ event = None
    /\ tick = 0
    /\ idx = 0
    /\ result = None
    /\ player = None
    /\ calls = << >>
    /\ dispatched = << >>
    /\ visited = << >>
    /\ NoBatch

engine == <<spec, tests, timeline, event, pc, tick, idx, result, player, calls, dispatched,
            visited, specs, results, summary, logs, failed>>

InitLoader ==
    /\ fs \in LoaderDirs
    /\ index_file \in LoaderIndexFiles(fs)
    /\ loader = None
    /\ changes = 0
    /\ call = None
    /\ pc = "loader"
    /\ NoEngine

\* TestLoader::new(path, recursive)
NewLoader ==
    /\ pc = "loader"
    /\ \E recursive \in BOOLEAN :
          LET files == collect_test_files(fs, recursive)
              l == load(files.v, fs, index_file)
          IN  IF files.tag = "Err"
              THEN /\ call' = LoaderCall("new", <<".", recursive>>, files)
                   /\ UNCHANGED <<index_file, loader>>
              ELSE /\ index_file' = l.file
                   /\ loader' = IF l.ret.tag = "Ok"
                                THEN Some(TestLoader(".", recursive, l.ret.v))
                                ELSE loader
                   /\ call' = LoaderCall("new", <<".", recursive>>,
                                         IF l.ret.tag = "Ok"
                                         THEN OkOf(TestLoader(".", recursive, l.ret.v))
                                         ELSE l.ret)
    /\ UNCHANGED <<fs, changes>>
    /\ UNCHANGED engine

\* loader.verify_index(files), files being the files collected now
VerifyIndex ==
    /\ pc = "loader"
    /\ loader # None
    /\ LET files == collect_test_files(fs, loader.v.recursive)
       IN  /\ files.tag = "Ok"
           /\ call' = LoaderCall("verify_index", <<files.v>>, verify(loader.v.index, files.v))
    /\ UNCHANGED <<fs, index_file, loader, changes>>
    /\ UNCHANGED engine

\* loader.rebuild_index(files), files being the files collected now
RebuildIndex ==
    /\ pc = "loader"
    /\ loader # None
    /\ LET files == collect_test_files(fs, loader.v.recursive)
           r == rebuild(loader.v.index, files.v, fs, index_file)
       IN  /\ files.tag = "Ok"
           /\ loader' = Some([loader.v EXCEPT !.index = r.self])
           /\ index_file' = r.file
           /\ call' = LoaderCall("rebuild_index", <<files.v>>, r.ret)
    /\ UNCHANGED <<fs, changes>>
    /\ UNCHANGED engine

\* mutant of VerifyAndRebuildIndex: the index is rebuilt whether it verifies or not
VerifyAndRebuildIndex_Always ==
    /\ pc = "loader"
    /\ loader # None
    /\ LET files == collect_test_files(fs, loader.v.recursive)
           r == rebuild(loader.v.index, files.v, fs, index_file)
       IN  IF files.tag = "Ok"
           THEN /\ loader' = Some([loader.v EXCEPT !.index = r.self])
                /\ index_file' = r.file
                /\ call' = LoaderCall("verify_and_rebuild_index", << >>,
                                      IF r.ret = Ok
                                      THEN OkOf(verify(loader.v.index, files.v))
                                      ELSE r.ret)
           ELSE /\ call' = LoaderCall("verify_and_rebuild_index", << >>, OkOf(FALSE))
                /\ UNCHANGED <<index_file, loader>>
    /\ UNCHANGED <<fs, changes>>
    /\ UNCHANGED engine

\* loader.verify_and_rebuild_index()
VerifyAndRebuildIndex ==
    /\ pc = "loader"
    /\ loader # None
    /\ LET files == collect_test_files(fs, loader.v.recursive)
           r == rebuild(loader.v.index, files.v, fs, index_file)
       IN  IF files.tag = "Ok"
           THEN IF ~verify(loader.v.index, files.v)
                THEN /\ loader' = Some([loader.v EXCEPT !.index = r.self])
                     /\ index_file' = r.file
                     /\ call' = LoaderCall("verify_and_rebuild_index", << >>,
                                           IF r.ret = Ok THEN OkOf(FALSE) ELSE r.ret)
                ELSE /\ call' = LoaderCall("verify_and_rebuild_index", << >>, OkOf(TRUE))
                     /\ UNCHANGED <<index_file, loader>>
           ELSE /\ call' = LoaderCall("verify_and_rebuild_index", << >>, OkOf(FALSE))
                /\ UNCHANGED <<index_file, loader>>
    /\ UNCHANGED <<fs, changes>>
    /\ UNCHANGED engine

\* a file under the test path is created or overwritten
WriteFile ==
    /\ pc = "loader"
    /\ changes < MaxChanges
    /\ \E path \in Range(PathOrder) : \E content \in Contents(path) :
          /\ path \in DOMAIN fs.files => fs.files[path] # content
          /\ fs' = [fs EXCEPT !.files = [p \in DOMAIN fs.files \cup {path} |->
                                            IF p = path THEN content ELSE fs.files[p]]]
    /\ changes' = changes + 1
    /\ call' = None
    /\ UNCHANGED <<index_file, loader>>
    /\ UNCHANGED engine

\* a file under the test path is removed
RemoveFile ==
    /\ pc = "loader"
    /\ changes < MaxChanges
    /\ \E path \in DOMAIN fs.files :
          fs' = [fs EXCEPT !.files = [p \in DOMAIN fs.files \ {path} |-> fs.files[p]]]
    /\ changes' = changes + 1
    /\ call' = None
    /\ UNCHANGED <<index_file, loader>>
    /\ UNCHANGED engine

\* the permission to read the test path is taken away or given back
SetReadable ==
    /\ pc = "loader"
    /\ changes < MaxChanges
    /\ fs' = [fs EXCEPT !.readable = ~fs.readable]
    /\ changes' = changes + 1
    /\ call' = None
    /\ UNCHANGED <<index_file, loader>>
    /\ UNCHANGED engine

NextLoader ==
    \/ NewLoader
    \/ VerifyIndex
    \/ RebuildIndex
    \/ VerifyAndRebuildIndex
    \/ WriteFile
    \/ RemoveFile
    \/ SetReadable

SpecLoader == InitLoader /\ [][NextLoader]_vars

(***************************************************************************)
(* Calls of generate_index and of get_test_paths_from_scopes.              *)
(***************************************************************************)
MaxFiles == 2
MaxScope == 2

\* the paths given to generate_index: ./a.json, ./notes.jsonnet, ./sub/b.JSON
IndexPaths == {PathOrder[1], PathOrder[3], PathOrder[4]}

\* what the file at a path of the list holds; None when there is no such file
IndexContents ==
    {None, Some(NotATest)} \cup
    {Some(TestFile(tags)) :
        tags \in {<< >>, <<"fast">>, <<"slow">>, <<"fast", "slow">>, <<"fast", "fast">>,
                  <<"default">>}}

\* the directory that holds content[p] at p
DirOf(content) ==
    Dir([p \in {q \in DOMAIN content : content[q] # None} |-> content[p].v])

\* the index that generate_index is called on: empty, as in load and rebuild, or with entries
IndexBefore ==
    {Index_empty,
     [hash |-> get_hash(<<PathOrder[2]>>),
      index |-> [t \in {"fast"} |-> <<to_string_lossy(PathOrder[2])>>],
      index_name |-> get_index_name]}

InitGenerate ==
    /\ \E all_files \in SeqUpTo(IndexPaths, MaxFiles) :
          \E content \in [Range(all_files) -> IndexContents] : \E self \in IndexBefore :
             call = Call("generate_index", <<self, all_files, DirOf(content)>>)
    /\ pc = "call"
    /\ NoRun

\* self.generate_index(all_files), no index file being there before
CallGenerateIndex ==
    /\ pc = "call"
    /\ call.fn = "generate_index"
    /\ call' = [call EXCEPT
                   !.ret = Some(generate_index(call.args[1], call.args[2], call.args[3], None))]
    /\ pc' = "returned"
    /\ UNCHANGED <<spec, tests, timeline, event, tick, idx, result, player, calls, dispatched,
                   visited, specs, results, summary, logs, failed>>
    /\ UNCHANGED storage

SpecGenerate == InitGenerate /\ [][CallGenerateIndex]_vars

\* the tags asked for: two tags of the files, the default tag and a tag of no file
ScopeTags == {"fast", "slow", get_default_tag, "none"}

\* the indexes asked: those generated from three files with tags
ScopeIndexes ==
    {generate_index(Index_empty, <<PathOrder[1], PathOrder[3], PathOrder[4]>>, DirOf(content), None).self :
        content \in [IndexPaths -> {Some(TestFile(tags)) :
                                       tags \in {<< >>, <<"fast">>, <<"slow">>,
                                                 <<"slow", "fast">>}}]}

InitScopes ==
    /\ \E self \in ScopeIndexes : \E scope \in SeqUpTo(ScopeTags, MaxScope) :
          call = Call("get_test_paths_from_scopes", <<self, scope>>)
    /\ pc = "call"
    /\ NoRun

\* self.get_test_paths_from_scopes(scope)
CallGetTestPaths ==
    /\ pc = "call"
    /\ call.fn = "get_test_paths_from_scopes"
    /\ call' = [call EXCEPT
                   !.ret = Some(get_test_paths_from_scopes(call.args[1], call.args[2]))]
    /\ pc' = "returned"
    /\ UNCHANGED <<spec, tests, timeline, event, tick, idx, result, player, calls, dispatched,
                   visited, specs, results, summary, logs, failed>>
    /\ UNCHANGED storage

SpecScopes == InitScopes /\ [][CallGetTestPaths]_vars

(***************************************************************************)
(* Calls of collect_test_files on a file, a directory or a path that is    *)
(* neither.                                                                *)
(***************************************************************************)
\* the files that can lie under the test path: ./README, ./a.json, ./index.JSON,
\* ./index.json, ./notes.jsonnet, ./sub/b.JSON, ./sub/index.json, ./sub/deep/c.json
CollectFiles ==
    {Path(<< >>, "README", None), Path(<< >>, "index", Some(JsonUpper)),
     Path(<<"sub">>, "index", Some(Json)), Path(<<"sub", "deep">>, "c", Some(Json))}
    \cup Range(PathOrder)

\* the paths asked: the test path, two directories under it and the files
CollectPaths ==
    {DirPath(<< >>), DirPath(<<"sub">>), DirPath(<<"sub", "deep">>)} \cup CollectFiles

InitCollect ==
    /\ \E present \in SUBSET CollectFiles : \E readable \in BOOLEAN :
          \E path \in CollectPaths : \E recursive \in BOOLEAN :
             call = Call("collect_test_files",
                         <<[files |-> [p \in present |-> NotATest], readable |-> readable],
                           path, recursive>>)
    /\ pc = "call"
    /\ NoRun

\* TestLoader::collect_test_files(path, recursive)
CallCollectTestFiles ==
    /\ pc = "call"
    /\ call.fn = "collect_test_files"
    /\ call' = [call EXCEPT !.ret = Some(TestLoader_collect_test_files(
                                             call.args[1], call.args[2], call.args[3]))]
    /\ pc' = "returned"
    /\ UNCHANGED <<spec, tests, timeline, event, tick, idx, result, player, calls, dispatched,
                   visited, specs, results, summary, logs, failed>>
    /\ UNCHANGED storage

SpecCollect == InitCollect /\ [][CallCollectTestFiles]_vars

(***************************************************************************)
(* Vocabulary of the properties, stated from the input (spec, tests) and   *)
(* from the recorded operations, not from the aggregate.                   *)
(***************************************************************************)
\* the schedule of a batch: <<tick, test_idx, entry_idx, value_idx>> for every tick named
\* by every entry of every test
SchedOf(tws) ==
    UNION {UNION {{<<to_vec(tws[i][1].timeline[e].at)[j], i - 1, e - 1, j - 1>> :
                      j \in DOMAIN to_vec(tws[i][1].timeline[e].at)} :
                  e \in DOMAIN tws[i][1].timeline} :
           i \in DOMAIN tws}

\* the ticks named by the entries of a batch
ReferencedTicks(tws) == {x[1] : x \in SchedOf(tws)}

\* the greatest of them, 0 when there is none
GreatestTick(tws) ==
    IF ReferencedTicks(tws) = {} THEN 0
    ELSE CHOOSE m \in ReferencedTicks(tws) : \A t \in ReferencedTicks(tws) : t <= m

\* lexicographic order on tuples of integers of the same length
RECURSIVE LexLess(_, _)
LexLess(a, b) ==
    /\ a # << >>
    /\ \/ a[1] < b[1]
       \/ a[1] = b[1] /\ LexLess(Tail(a), Tail(b))

Last(s) == s[Len(s)]

\* the key <<tick, test_idx, entry_idx, value_idx>> of a dispatch
KeyOf(d) == <<d.tick>> \o d.item

IsAssertDispatch(d) == EntryOf(tests, d.item).action_type.do = "assert"

\* the j-th check of the Assert dispatched by d was evaluated by the get_block call that
\* follows the j - 1 calls of the checks before it
Evaluated(d, j) ==
    /\ j \in DOMAIN EntryOf(tests, d.item).action_type.checks
    /\ d.before + j <= Len(calls)
    /\ calls[d.before + j].op = "get_block"
    /\ calls[d.before + j].pos = EntryOf(tests, d.item).action_type.checks[j].pos

Matched(d, j) ==
    block_matches(calls[d.before + j].ret, EntryOf(tests, d.item).action_type.checks[j].is)

\* the j-th check is the first check of the Assert dispatched by d that does not match
FirstMismatchAt(d, j) ==
    /\ IsAssertDispatch(d)
    /\ \A i \in 1..j : Evaluated(d, i)
    /\ \A i \in 1..(j - 1) : Matched(d, i)
    /\ ~Matched(d, j)

Mismatch(d) ==
    /\ IsAssertDispatch(d)
    /\ \E j \in DOMAIN EntryOf(tests, d.item).action_type.checks : FirstMismatchAt(d, j)

NoMismatch == \A k \in DOMAIN dispatched : ~Mismatch(dispatched[k])

NumDoTicks(s) == Cardinality({i \in DOMAIN s : s[i].op = "do_tick"})

AssertDispatches == SelectSeq(dispatched, IsAssertDispatch)

(***************************************************************************)
(* C1.  When a check of an Assert dispatched at tick t does not match,     *)
(* run_test has returned a result with success = false and total_ticks =   *)
(* t whose last assertion record is a Failure for tick t; the failing      *)
(* dispatch is the last one, and the result holds one record per Assert    *)
(* dispatched up to it, so none for an action scheduled later in tick t    *)
(* or at a later tick.                                                     *)
(***************************************************************************)
C1_FailFastResult ==
    \A k \in DOMAIN dispatched :
       Mismatch(dispatched[k]) =>
          /\ pc = "done"
          /\ result.success = FALSE
          /\ result.total_ticks = dispatched[k].tick
          /\ result.assertions # << >>
          /\ Last(result.assertions).kind = "Failure"
          /\ Last(result.assertions).fail.tick = dispatched[k].tick
          /\ k = Len(dispatched)
          /\ Len(result.assertions) = Len(AssertDispatches)
          /\ \A i \in 1..(Len(result.assertions) - 1) :
                result.assertions[i].kind = "Success"

\* an Assert failed at a tick after 0 while a later entry of the same tick was pending
C1_Witness ==
    /\ pc = "done"
    /\ dispatched # << >>
    /\ Mismatch(Last(dispatched))
    /\ tick > 0
    /\ idx + 1 < Len(ActionsAt(timeline, tick))

(***************************************************************************)
(* C2.  The get_block call that yields the first mismatching check of an   *)
(* Assert is the last adapter operation of the test: no get_block for the  *)
(* remaining checks, no operation of a later entry, no do_tick.            *)
(***************************************************************************)
C2_NoOperationAfterMismatch ==
    \A k \in DOMAIN dispatched :
       \A j \in 1..MaxChecks :
          FirstMismatchAt(dispatched[k], j) => Len(calls) = dispatched[k].before + j

\* the first of two checks failed while a later tick was still scheduled
C2_Witness ==
    /\ pc = "done"
    /\ dispatched # << >>
    /\ FirstMismatchAt(Last(dispatched), 1)
    /\ Len(EntryOf(tests, Last(dispatched).item).action_type.checks) = 2
    /\ tick < timeline.max_tick

(***************************************************************************)
(* C3.  When no check mismatches, the returned run has taken the ticks     *)
(* 0, 1, ..., max_tick in this order, and its result has success = true,   *)
(* total_ticks = max_tick (the greatest tick the spec names) and no        *)
(* Failure record.                                                         *)
(***************************************************************************)
C3_CompleteRun ==
    (pc = "done" /\ NoMismatch) =>
       /\ visited = [i \in 1..(GreatestTick(tests) + 1) |-> i - 1]
       /\ result.success = TRUE
       /\ result.total_ticks = GreatestTick(tests)
       /\ \A i \in DOMAIN result.assertions : result.assertions[i].kind # "Failure"

\* a run over ticks 0..2 returned after an Assert with two matching checks
C3_Witness ==
    /\ pc = "done"
    /\ NoMismatch
    /\ GreatestTick(tests) = 2
    /\ \E k \in DOMAIN dispatched :
          /\ IsAssertDispatch(dispatched[k])
          /\ Evaluated(dispatched[k], 2)

(***************************************************************************)
(* C4.  do_tick is called once per processed tick, after the actions of    *)
(* the tick: an action scheduled at tick t is dispatched at tick t after   *)
(* exactly t do_tick calls, every entry of a tick is dispatched before the *)
(* do_tick of that tick, and a run without mismatch makes max_tick + 1     *)
(* do_tick calls.                                                          *)
(***************************************************************************)
C4_OneDoTickPerTick ==
    /\ \A k \in DOMAIN dispatched :
          /\ KeyOf(dispatched[k]) \in SchedOf(tests)
          /\ NumDoTicks(SubSeq(calls, 1, dispatched[k].before)) = dispatched[k].tick
    /\ \A x \in SchedOf(tests) :
          x[1] < NumDoTicks(calls) => \E k \in DOMAIN dispatched : KeyOf(dispatched[k]) = x
    /\ pc = "loop" => NumDoTicks(calls) = tick
    /\ (pc = "done" /\ NoMismatch) => NumDoTicks(calls) = GreatestTick(tests) + 1

\* a run returned after dispatching at tick 2 only: ticks 0 and 1 had no action
C4_Witness ==
    /\ pc = "done"
    /\ NoMismatch
    /\ dispatched # << >>
    /\ \A k \in DOMAIN dispatched : dispatched[k].tick = 2
    /\ NumDoTicks(calls) = 3

(***************************************************************************)
(* C5.  The entries the aggregate lists under one tick are in input test   *)
(* order, then timeline order, then tick-list order; run_test dispatches   *)
(* the schedule in increasing order of (tick, test, entry, occurrence),    *)
(* skipping none, whatever the types of the actions.                       *)
(***************************************************************************)
C5_DispatchOrder ==
    /\ timeline # None =>
          \A t \in DOMAIN timeline.timeline :
             \A a, b \in DOMAIN timeline.timeline[t] :
                a < b => LexLess(timeline.timeline[t][a], timeline.timeline[t][b])
    /\ \A a, b \in DOMAIN dispatched :
          a < b => LexLess(KeyOf(dispatched[a]), KeyOf(dispatched[b]))
    /\ \A k \in DOMAIN dispatched :
          /\ KeyOf(dispatched[k]) \in SchedOf(tests)
          /\ \A x \in SchedOf(tests) :
                LexLess(x, KeyOf(dispatched[k])) =>
                   \E i \in 1..(k - 1) : KeyOf(dispatched[i]) = x

\* at one tick an Assert listed first was dispatched before a Place listed second
C5_Witness ==
    /\ Len(dispatched) = 2
    /\ dispatched[1].tick = dispatched[2].tick
    /\ EntryOf(tests, dispatched[1].item).action_type.do = "assert"
    /\ EntryOf(tests, dispatched[2].item).action_type.do = "place"
    /\ dispatched[1].item[2] = 0
    /\ dispatched[2].item[2] = 1

(***************************************************************************)
(* C6.  The result holds one record per dispatched Assert, in dispatch     *)
(* order, and none for another action; the record of an Assert whose       *)
(* checks all matched, whatever their number, is Success(tick).            *)
(***************************************************************************)
C6_OneRecordPerAssert ==
    result # None =>
       /\ Len(result.assertions) = Len(AssertDispatches)
       /\ \A k \in DOMAIN AssertDispatches :
             ~Mismatch(AssertDispatches[k]) =>
                result.assertions[k] = Success(AssertDispatches[k].tick)

\* an Assert without checks and a Place were dispatched: one Success record
C6_Witness ==
    /\ pc = "done"
    /\ Len(dispatched) = 2
    /\ \E k \in DOMAIN dispatched :
          /\ IsAssertDispatch(dispatched[k])
          /\ EntryOf(tests, dispatched[k].item).action_type.checks = << >>
    /\ \E k \in DOMAIN dispatched : ~IsAssertDispatch(dispatched[k])
    /\ Len(result.assertions) = 1
    /\ result.assertions[1].kind = "Success"

(***************************************************************************)
(* C7.  from_tests puts, for every entry and every position j of its tick  *)
(* list, exactly one schedule entry (test index, entry, j) under the j-th  *)
(* listed tick, and nothing else: k listed ticks give k entries, a tick    *)
(* listed twice gives two entries under that tick.                         *)
(***************************************************************************)
C7_Expansion ==
    pc = "query" =>
       /\ DOMAIN timeline.timeline = ReferencedTicks(tests)
       /\ \A t \in DOMAIN timeline.timeline :
             /\ Range(timeline.timeline[t]) =
                   {<<x[2], x[3], x[4]>> : x \in {y \in SchedOf(tests) : y[1] = t}}
             /\ Len(timeline.timeline[t]) = Cardinality(Range(timeline.timeline[t]))

\* one entry lists tick 1 twice: two schedule entries under tick 1, value_idx 0 and 1
C7_Witness ==
    /\ pc = "query"
    /\ Len(tests) = 1
    /\ tests[1][1].timeline = <<[at |-> Multiple(<<1, 1>>), action_type |-> Place(Origin, Stone)]>>
    /\ timeline.timeline[1] = << <<0, 0, 0>>, <<0, 0, 1>> >>

(***************************************************************************)
(* C8.  The aggregate's max_tick is the greatest tick named by an entry of *)
(* a test, 0 when no tick is named; unique_tick_count is the number of     *)
(* distinct ticks named.                                                   *)
(***************************************************************************)
C8_MaxTick ==
    pc = "query" =>
       /\ timeline.max_tick = GreatestTick(tests)
       /\ event # None => event.unique_ticks = Cardinality(ReferencedTicks(tests))

\* two tests, the greatest tick being named by the first one, before a smaller one
C8_Witness ==
    /\ pc = "query"
    /\ event # None
    /\ Len(tests) = 2
    /\ ReferencedTicks(<<tests[1]>>) = {2}
    /\ ReferencedTicks(<<tests[2]>>) = {1}
    /\ timeline.max_tick = 2
    /\ event.unique_ticks = 2

(***************************************************************************)
(* C9.  next_event_tick(t) is the smallest tick greater than t that is a   *)
(* scheduled tick or a breakpoint, none when there is no such tick: the    *)
(* smaller of next_action_tick(t) and next_breakpoint(t) when both exist,  *)
(* the one that exists otherwise.                                          *)
(***************************************************************************)
EventsAfter(t) ==
    {x \in ReferencedTicks(tests)
           \cup UNION {Range(tests[i][1].breakpoints) : i \in DOMAIN tests} : x > t}

C9_NextEvent ==
    event # None =>
       /\ event.next_event = SetMin(EventsAfter(event.current_tick))
       /\ (event.next_action # None /\ event.next_bp # None) =>
             event.next_event = Some(Min(event.next_action.v, event.next_bp.v))
       /\ (event.next_action # None /\ event.next_bp = None) =>
             event.next_event = event.next_action
       /\ (event.next_action = None /\ event.next_bp # None) =>
             event.next_event = event.next_bp
       /\ (event.next_action = None /\ event.next_bp = None) => event.next_event = None

\* from tick 0 the next action is at tick 2 and the next breakpoint at tick 1
C9_Witness ==
    /\ event # None
    /\ event.current_tick = 0
    /\ event.next_action = Some(2)
    /\ event.next_bp = Some(1)
    /\ event.next_event = Some(1)

(***************************************************************************)
(* C10.  The aggregate's breakpoint set is the union of the breakpoints    *)
(* of the input tests.                                                     *)
(***************************************************************************)
C10_BreakpointUnion ==
    pc = "query" =>
       timeline.breakpoints = UNION {Range(tests[i][1].breakpoints) : i \in DOMAIN tests}

\* two tests list the same breakpoint: it is in the set once
C10_Witness ==
    /\ pc = "query"
    /\ Len(tests) = 2
    /\ tests[1][1].breakpoints = <<1>>
    /\ tests[2][1].breakpoints = <<1>>
    /\ timeline.breakpoints = {1}

(***************************************************************************)
(* Vocabulary of the player properties.                                    *)
(***************************************************************************)
ActionOf(d) == EntryOf(tests, d.item).action_type

NeedsPlayer(action) == action.do \in {"use_item_on", "set_slot", "select_hotbar"}

IsPlayerOp(o) == o.op \in {"set_slot", "select_hotbar", "use_item_on"}

CreatePlayerCalls(s) == {i \in DOMAIN s : s[i].op = "create_player"}

\* the adapter operations made while the k-th dispatch was executed: those recorded
\* after it started, up to the next dispatch or the do_tick of its tick
OpsOf(k) ==
    LET b == dispatched[k].before
        lim == IF k < Len(dispatched) THEN dispatched[k + 1].before ELSE Len(calls)
        e == CHOOSE e \in b..lim :
                /\ \A i \in (b + 1)..e : calls[i].op # "do_tick"
                /\ e < lim => calls[e + 1].op = "do_tick"
    IN  SubSeq(calls, b + 1, e)

\* ops without the create_player it may start with
AfterCreate(ops) == IF ops # << >> /\ Head(ops) = OpCreatePlayer THEN Tail(ops) ELSE ops

(***************************************************************************)
(* C11.  A run of run_test calls create_player at most once; every player  *)
(* operation comes after the create_player call; an action that needs the  *)
(* player starts with create_player when no player was created before it   *)
(* (by the setup or by an earlier action) and makes no create_player call  *)
(* otherwise.                                                              *)
(***************************************************************************)
C11_PlayerCreatedOnce ==
    /\ Cardinality(CreatePlayerCalls(calls)) <= 1
    /\ \A i \in DOMAIN calls :
          IsPlayerOp(calls[i]) => \E j \in 1..(i - 1) : calls[j].op = "create_player"
    /\ \A k \in DOMAIN dispatched :
          NeedsPlayer(ActionOf(dispatched[k])) =>
             IF CreatePlayerCalls(SubSeq(calls, 1, dispatched[k].before)) = {}
             THEN /\ OpsOf(k) # << >>
                  /\ Head(OpsOf(k)) = OpCreatePlayer
                  /\ CreatePlayerCalls(Tail(OpsOf(k))) = {}
             ELSE CreatePlayerCalls(OpsOf(k)) = {}

\* without a configured player, a SelectHotbar then a UseItemOn were dispatched: the
\* first created the player, the second reused it
C11_Witness ==
    /\ pc = "done"
    /\ ~HasPlayerConfig(spec)
    /\ Len(dispatched) = 2
    /\ ActionOf(dispatched[1]).do = "select_hotbar"
    /\ ActionOf(dispatched[2]).do = "use_item_on"
    /\ Head(OpsOf(1)) = OpCreatePlayer
    /\ Cardinality(CreatePlayerCalls(calls)) = 1

(***************************************************************************)
(* C12.  When the setup configures a player, the operations of run_test    *)
(* start with create_test_world, create_player, then one set_slot per      *)
(* configured inventory slot carrying the configured item, then            *)
(* select_hotbar with the configured slot, 1 when the field is not         *)
(* written; every dispatch comes after them.                               *)
(***************************************************************************)
C12_SetupPlayerFirst ==
    (pc # "start" /\ HasPlayerConfig(spec)) =>
       LET player_config == spec.setup.v.player.v
           k == Cardinality(DOMAIN player_config.inventory)
       IN  /\ Len(calls) >= k + 3
           /\ calls[1] = OpCreateTestWorld
           /\ calls[2] = OpCreatePlayer
           /\ \A i \in 3..(k + 2) : calls[i].op = "set_slot"
           /\ \A slot \in DOMAIN player_config.inventory :
                 Cardinality({i \in 3..(k + 2) :
                    calls[i] = OpSetSlot(slot, Some(player_config.inventory[slot]))}) = 1
           /\ calls[k + 3] = OpSelectHotbar(IF player_config.selected_hotbar \in WrittenHotbars
                                            THEN player_config.selected_hotbar ELSE 1)
           /\ \A d \in DOMAIN dispatched : dispatched[d].before >= k + 3

\* two slots configured, no hotbar slot written, and an action dispatched at tick 0
C12_Witness ==
    /\ HasPlayerConfig(spec)
    /\ Cardinality(DOMAIN spec.setup.v.player.v.inventory) = 2
    /\ spec.setup.v.player.v.selected_hotbar \notin WrittenHotbars
    /\ dispatched # << >>
    /\ dispatched[1].tick = 0
    /\ calls[5] = OpSelectHotbar(1)

MismatchIn(log) ==
    \E j \in DOMAIN log : log[j].op = "get_block" /\ ~block_matches(log[j].ret, Stone)

(***************************************************************************)
(* C14.  The summary run_tests returns holds one result per spec, in input *)
(* order: result i carries the name of spec i, comes from a run in a world *)
(* of its own, fails exactly when a check of that run mismatched and       *)
(* counts the ticks of that run, whatever the other tests did;             *)
(* failed_tests is the number of runs with a mismatch.                     *)
(***************************************************************************)
C14_OneResultPerSpec ==
    pc = "returned" =>
       /\ Len(summary.results) = Len(specs.v)
       /\ summary.total_tests = Len(specs.v)
       /\ \A i \in DOMAIN specs.v :
             /\ summary.results[i].test_name = specs.v[i].name
             /\ logs[i] # << >>
             /\ logs[i][1] = OpCreateTestWorld
             /\ summary.results[i].success = ~MismatchIn(logs[i])
             /\ summary.results[i].total_ticks =
                   IF MismatchIn(logs[i]) THEN NumDoTicks(logs[i])
                   ELSE TestSpec_max_tick(specs.v[i])
             /\ ~MismatchIn(logs[i]) => NumDoTicks(logs[i]) = TestSpec_max_tick(specs.v[i]) + 1
       /\ summary.failed_tests = Cardinality({i \in DOMAIN specs.v : MismatchIn(logs[i])})
       /\ summary.passed_tests = Cardinality({i \in DOMAIN specs.v : ~MismatchIn(logs[i])})

\* the first of two specs failed at tick 1 and the second passed its Assert
C14_Witness ==
    /\ pc = "returned"
    /\ Len(specs.v) = 2
    /\ specs.v[1].name # specs.v[2].name
    /\ ~summary.results[1].success
    /\ summary.results[1].total_ticks = 1
    /\ summary.results[2].success
    /\ summary.results[2].assertions = <<Success(1)>>
    /\ summary.failed_tests = 1

(***************************************************************************)
(* C15.  When an operation of the adapter has failed during a test of a    *)
(* batch, run_tests still ends with a summary holding one result per       *)
(* submitted spec.                                                         *)
(***************************************************************************)
C15_BatchSurvivesAdapterFailure ==
    (failed /\ pc \in {"returned", "unwound"}) =>
       /\ summary # None
       /\ Len(summary.results) = Len(specs.v)

(***************************************************************************)
(* Vocabulary of the block-matching properties.                            *)
(***************************************************************************)
Prefixed(id) == <<"minecraft:">> \o id

HasPrefix(id) == id # << >> /\ Head(id) = "minecraft:"

\* the two identifiers are the same once a leading "minecraft:" is taken off each
SameUnprefixed(a, b) ==
    CASE HasPrefix(a) /\ HasPrefix(b)   -> Tail(a) = Tail(b)
      [] HasPrefix(a) /\ ~HasPrefix(b)  -> a = Prefixed(b)
      [] ~HasPrefix(a) /\ HasPrefix(b)  -> b = Prefixed(a)
      [] OTHER                          -> a = b

\* the actual properties, restricted to the keys the expected block names, are the
\* expected properties
ExpectedSubset(actual, expected) ==
    /\ DOMAIN expected.properties \subseteq DOMAIN actual.properties
    /\ [key \in DOMAIN expected.properties |-> actual.properties[key]] = expected.properties

MatchReturned == pc = "returned" /\ call # None /\ call.fn = "block_matches"

(***************************************************************************)
(* C16.  block_matches never accepts two identifiers that differ once a    *)
(* leading "minecraft:" is taken off each of them, and, when the expected  *)
(* block names no property, accepts exactly the pairs of identifiers that  *)
(* are then the same: an identifier and its prefixed spelling match, in    *)
(* either role.                                                            *)
(***************************************************************************)
C16_PrefixInsensitiveId ==
    MatchReturned =>
       LET actual == call.args[1]
           expected == call.args[2]
       IN  /\ ~SameUnprefixed(actual.id, expected.id) => call.ret = Some(FALSE)
           /\ expected.properties = << >> =>
                 call.ret = Some(SameUnprefixed(actual.id, expected.id))

\* the actual block is "lever", the expected one "minecraft:lever": they match
C16_Witness ==
    /\ MatchReturned
    /\ call.args[1].id = <<"lever">>
    /\ call.args[2].id = <<"minecraft:", "lever">>
    /\ call.args[2].properties = << >>
    /\ call.ret = Some(TRUE)

(***************************************************************************)
(* C17.  For identifiers that agree, block_matches(actual, expected) is    *)
(* true exactly when every property of the expected block is a property of *)
(* the actual block with the same value: further properties of the actual  *)
(* block do not matter, a property the actual block lacks is a mismatch.   *)
(***************************************************************************)
C17_PropertySubset ==
    (MatchReturned /\ SameUnprefixed(call.args[1].id, call.args[2].id)) =>
       call.ret = Some(ExpectedSubset(call.args[1], call.args[2]))

\* expected minecraft:lever[powered=false] matches actual lever[powered=false,face=true]
C17_Witness ==
    /\ MatchReturned
    /\ call.args[1] = Block(<<"lever">>, [powered |-> "false", face |-> "true"])
    /\ call.args[2] = Block(<<"minecraft:", "lever">>, [powered |-> "false"])
    /\ call.ret = Some(TRUE)

(***************************************************************************)
(* C18.  When the j-th check of an Assert dispatched at tick t is its      *)
(* first mismatch, the last record of the result is a Failure carrying t,  *)
(* the position of the j-th check, the whole expected block of that check  *)
(* and the whole block get_block returned for that position.               *)
(***************************************************************************)
C18_FailureRecord ==
    \A k \in DOMAIN dispatched :
       \A j \in 1..MaxChecks :
          FirstMismatchAt(dispatched[k], j) =>
             LET check == EntryOf(tests, dispatched[k].item).action_type.checks[j]
                 got == calls[dispatched[k].before + j]
             IN  /\ got.pos = check.pos
                 /\ Last(result.assertions) =
                       [kind |-> "Failure",
                        fail |-> [tick     |-> dispatched[k].tick,
                                  position |-> check.pos,
                                  expected |-> [kind |-> "Block", block |-> check.is],
                                  actual   |-> [kind |-> "Block", block |-> got.ret]]]

\* the second check of an Assert dispatched after tick 0 failed: the record carries
\* position (2, 0, 0), the expected stone and the dirt found there
C18_Witness ==
    /\ pc = "done"
    /\ dispatched # << >>
    /\ FirstMismatchAt(Last(dispatched), 2)
    /\ Last(dispatched).tick > 0
    /\ Last(result.assertions).fail.position = Pos(2)
    /\ Last(result.assertions).fail.expected.block = Stone
    /\ Last(result.assertions).fail.actual.block = Dirt

(***************************************************************************)
(* Vocabulary of the spatial properties, in exact integers.                *)
(***************************************************************************)
SpatialReturned(fn) == pc = "returned" /\ call # None /\ call.fn = fn

\* the smallest g >= 0 with g * g >= total
LeastSide(total) == CHOOSE g \in 0..total : g * g >= total /\ \A h \in 0..(g - 1) : h * h < total

\* -(g/2) for an odd g, -(g/2 - 1) for an even g: base is this many cells
BaseCells(g) == IF g % 2 = 1 THEN -(g \div 2) ELSE -(g \div 2 - 1)

\* m * |c| <= 2^31 - 1
CellsFit(m, c) == m > 0 /\ c >= -(I32Max \div m) /\ c <= I32Max \div m

\* (base + (i mod g) * c, 0, base + (i div g) * c), for arguments whose products fit
OffsetFormula(i, total, c) ==
    LET g == LeastSide(total)
        base == BaseCells(g) * c
    IN  <<base + (i % g) * c, 0, base + (i \div g) * c>>

\* the same value for any c: base + k * c = (BaseCells(g) + k) * c, and whether both
\* components are i32 values
ExactOffset(i, total, c) ==
    LET g == LeastSide(total)
        x == wrapping_mul(BaseCells(g) + (i % g), c)
        z == wrapping_mul(BaseCells(g) + (i \div g), c)
    IN  [fits |-> ~x.o /\ ~z.o, v |-> <<x.v, 0, z.v>>]

ExtentAtMost(lo, hi, cap) ==
    /\ lo <= hi
    /\ lo > I32Max - (cap - 1) \/ hi <= lo + (cap - 1)

InRegion(pos, region) ==
    \A axis \in 1..3 : region[1][axis] <= pos[axis] /\ pos[axis] <= region[2][axis]

\* every position written in an entry of the timeline
ReferencedPositions(test) ==
    UNION {LET action == test.timeline[e].action_type
           IN  CASE action.do \in {"place", "remove", "use_item_on"} -> {action.pos}
                 [] action.do = "place_each" -> {action.blocks[j].pos : j \in DOMAIN action.blocks}
                 [] action.do = "fill" -> {action.region[1], action.region[2]}
                 [] action.do = "assert" -> {action.checks[j].pos : j \in DOMAIN action.checks}
                 [] OTHER -> {}
           : e \in DOMAIN test.timeline}

\* the conditions under which a spec is valid
WellFormedSpec(test) ==
    /\ test.setup # None
    /\ test.setup.v.cleanup # None
    /\ LET region == test.setup.v.cleanup.v.region
       IN  /\ ExtentAtMost(region[1][1], region[2][1], MAX_WIDTH)
           /\ ExtentAtMost(region[1][2], region[2][2], MAX_HEIGHT)
           /\ ExtentAtMost(region[1][3], region[2][3], MAX_DEPTH)
           /\ \A pos \in ReferencedPositions(test) : InRegion(pos, region)

CallReturned(fn) == pc = "returned" /\ call # None /\ call.fn = fn

\* C22: validate returns Ok iff setup and setup.cleanup are present, the cleanup region
\* has min <= max on every axis, its width and depth are at most 15 and its height at
\* most 384, and every position of every Place, PlaceEach, Fill, Remove, Assert and
\* UseItemOn entry lies inside the region; otherwise it returns an error, and from_file
\* returns no spec.
C22_ValidateIffWellFormed ==
    /\ CallReturned("validate") =>
          LET test == call.args[1]
          IN  IF WellFormedSpec(test)
              THEN call.ret.v = Returned(Ok)
              ELSE IsErr(call.ret.v)
    /\ CallReturned("from_file") =>
          LET file == call.args[1]
          IN  IF file # None /\ file.v # Malformed /\ WellFormedSpec(file.v.v)
              THEN call.ret.v = Returned(Parsed(file.v.v))
              ELSE IsErr(call.ret.v)

(***************************************************************************)
(* C21                                                                     *)
(***************************************************************************)
\* the positions of the inclusive box between the corners of a region
SharePosition(r, s) ==
    \A axis \in 1..3 : Max(r[1][axis], s[1][axis]) <= Min(r[2][axis], s[2][axis])

\* C21: two specs that pass validation, placed at distinct indices of the same total
\* with the default cell size, have cleanup regions that share no position once each
\* is moved by its offset.
C21_ShiftedRegionsDisjoint ==
    CallReturned("layout") =>
        ~SharePosition(call.ret.v.v[1], call.ret.v.v[2])

(***************************************************************************)
(* C23                                                                     *)
(***************************************************************************)
HasFailure(res) == \E i \in DOMAIN res.assertions : res.assertions[i].kind = "Failure"

\* C23: a TestResult starts with success = true and no assertions; after any sequence
\* of add_assertion calls (no with_failure_reason among them) success is false iff a
\* Failure has been added, and a Success added after a Failure does not set it back.
C23_SuccessFlag ==
    pc = "result" =>
       /\ result.assertions = << >> /\ result.failure_reason = None => result.success
       /\ result.failure_reason = None => (result.success = FALSE <=> HasFailure(result))
       /\ HasFailure(result) => result.success = FALSE

\* a Success was added after a Failure, and only add_assertion was called
C23_Witness ==
    /\ pc = "result"
    /\ result.failure_reason = None
    /\ Len(result.assertions) = 2
    /\ result.assertions[1].kind = "Failure"
    /\ result.assertions[2].kind = "Success"
    /\ result.success = FALSE

(***************************************************************************)
(* C24                                                                     *)
(***************************************************************************)
\* the execution times of the first n results, added up
RECURSIVE TimeOfFirst(_, _)
TimeOfFirst(rs, n) == IF n = 0 THEN 0 ELSE TimeOfFirst(rs, n - 1) + rs[n].execution_time_ms

Passed(rs) == SelectSeq(rs, LAMBDA r : r.success)

\* C24: from_results keeps the results in order, total_tests is their number,
\* passed_tests the number with success = true, failed_tests the difference and
\* total_execution_time_ms the sum of their times; all_passed() holds iff failed_tests
\* is 0, so the summary of no results has total_tests = 0, success rate 0 and
\* all_passed() = true.
C24_Summary ==
    /\ CallReturned("all_passed") =>
          LET summ == call.args[1]
          IN  /\ call.ret.v = (summ.failed_tests = 0)
              /\ call.ret.v = (\A i \in DOMAIN summ.results : summ.results[i].success)
              /\ summ.results = << >> => call.ret.v = TRUE
    /\ CallReturned("success_rate") =>
          LET summ == call.args[1]
          IN  summ.results = << >> => call.ret.v.num = 0
    /\ pc = "summary" /\ call # None /\ call.fn = "from_results" =>
          LET rs == call.args[1]
          IN  /\ call.ret.v = summary
              /\ summary.results = rs
              /\ summary.total_tests = Len(rs)
              /\ summary.passed_tests = Len(Passed(rs))
              /\ summary.failed_tests = summary.total_tests - summary.passed_tests
              /\ summary.total_execution_time_ms = TimeOfFirst(rs, Len(rs))
              /\ rs = << >> => summary.total_tests = 0

\* the summary of no results has passed
C24_Witness ==
    /\ CallReturned("all_passed")
    /\ call.args[1].results = << >>
    /\ call.args[1].total_tests = 0
    /\ call.ret.v = TRUE

(***************************************************************************)
(* C25                                                                     *)
(***************************************************************************)
\* the positions of the inclusive box between two corners, given in any order
Box(region) ==
    {<<x, y, z>> : x \in Min(region[1][1], region[2][1])..Max(region[1][1], region[2][1]),
                   y \in Min(region[1][2], region[2][2])..Max(region[1][2], region[2][2]),
                   z \in Min(region[1][3], region[2][3])..Max(region[1][3], region[2][3])}

\* C25: the dispatch of Fill{region, with} calls set_block with the fill block exactly
\* once for every position of the inclusive box spanned by the two corners, and for no
\* other position, whichever order the corners are given in on each axis.
C25_FillBox ==
    \A k \in DOMAIN dispatched :
       LET action == ActionOf(dispatched[k])
           ops == OpsOf(k)
       IN  action.do = "fill" =>
              /\ \A i \in DOMAIN ops : ops[i].op = "set_block" /\ ops[i].block = action.with
              /\ {ops[i].pos : i \in DOMAIN ops} = Box(action.region)
              /\ \A i \in DOMAIN ops, j \in DOMAIN ops : ops[i].pos = ops[j].pos => i = j

\* a Fill whose corners are inverted on x and in order on y was dispatched after a Place
C25_Witness ==
    /\ pc = "done"
    /\ Len(dispatched) = 2
    /\ ActionOf(dispatched[2]).do = "fill"
    /\ ActionOf(dispatched[2]).region = << <<1, -1, 0>>, <<-1, 1, 0>> >>
    /\ Len(OpsOf(2)) = 9

(***************************************************************************)
(* Properties of the index and of the loader.                              *)
(***************************************************************************)
\* the last call of the loader is fn, and the directory has not changed since
LoaderReturned(fn) == call # None /\ call.fn = fn

\* the files that the last call of the loader collected, Err when it could not
Collected(recursive) == collect_test_files(fs, recursive)

\* C26: Index::load reuses a saved index: when the index file holds the hash of the file
\* list given to load, load returns the index read from the file without generating it
\* anew, so the index file stays as it was.
C26_LoadReusesSavedIndex ==
    (/\ LoaderReturned("new")
     /\ call.old.index_file # None
     /\ Collected(call.args[2]).tag = "Ok"
     /\ call.old.index_file.v.hash = get_hash(Collected(call.args[2]).v))
    => /\ call.ret.v.tag = "Ok"
       /\ call.ret.v.v.index.hash = call.old.index_file.v.hash
       /\ call.ret.v.v.index.index = call.old.index_file.v.index
       /\ index_file = call.old.index_file

\* a .json test file: a file whose extension is json in any case and that is not index.json
JsonTestFile(path) ==
    /\ path.extension \in {Some(Json), Some(JsonUpper)}
    /\ path # PathOrder[2]

\* the .json test files that the loader sees under the test path
TestFilesNow ==
    {p \in DOMAIN fs.files : JsonTestFile(p) /\ (loader.v.recursive \/ p.parent = << >>)}

\* the file list whose hash the loader's index holds
IndexedFiles == loader.v.index.hash.hashed

\* C27: verify_index(files) is true iff the hash of files equals the hash stored in the
\* index; on the files collected now it is true iff the .json test files under the test
\* path are those the index was generated from, so a .json test file added or removed
\* makes it false and a file that is not a .json test file leaves it true.
C27_VerifyIffSameFiles ==
    LoaderReturned("verify_index")
    => /\ call.ret.v = (get_hash(call.args[1]) = loader.v.index.hash)
       /\ call.ret.v = (TestFilesNow = Range(IndexedFiles))

\* verify_index returns false after a .json test file was added
C27_Witness ==
    /\ LoaderReturned("verify_index")
    /\ call.ret.v = FALSE
    /\ \E p \in TestFilesNow : p \notin Range(IndexedFiles)

\* the path texts that an index lists under some tag
Listed(index) == UNION {Range(index.index[t]) : t \in DOMAIN index.index}

\* the texts of the first n paths of files
Texts(files, n) == {to_string_lossy(files[i]) : i \in 1..n}

\* the file at path reads as a TestSpec
ReadsAsTest(path) == path \in DOMAIN fs.files /\ fs.files[path].kind = "test"

\* how many files of the list come before the first that does not read as a TestSpec
ReadPrefix(files) ==
    IF \A i \in DOMAIN files : ReadsAsTest(files[i]) THEN Len(files)
    ELSE (CHOOSE i \in DOMAIN files :
              /\ ~ReadsAsTest(files[i])
              /\ \A j \in 1..(i - 1) : ReadsAsTest(files[j])) - 1

RECURSIVE Requested(_, _)
Requested(index, scope) ==
    IF scope = << >> THEN << >>
    ELSE index.index[Head(scope)] \o Requested(index, Tail(scope))

\* the position at which the text of path occurs first in texts
FirstOccurrence(path, texts) ==
    CHOOSE i \in DOMAIN texts :
        /\ PathBuf_from(texts[i]) = path
        /\ \A j \in 1..(i - 1) : PathBuf_from(texts[j]) # path

\* C29: get_test_paths_from_scopes(tags) returns an error when a requested tag is not in
\* the index; otherwise it returns every path listed under a requested tag exactly once,
\* ordered by first occurrence over the tags in the order of the request.
C29_PathsFromScopes ==
    CallReturned("get_test_paths_from_scopes")
    => LET self == call.args[1]
           scope == call.args[2]
           ret == call.ret.v
       IN  IF \E i \in DOMAIN scope : scope[i] \notin DOMAIN self.index
           THEN ret.tag = "Err"
           ELSE LET texts == Requested(self, scope)
                IN  /\ ret.tag = "Ok"
                    /\ Range(ret.v) = {PathBuf_from(texts[i]) : i \in DOMAIN texts}
                    /\ \A i, j \in DOMAIN ret.v :
                          i < j => FirstOccurrence(ret.v[i], texts)
                                       < FirstOccurrence(ret.v[j], texts)

\* two tags that share a path were asked for, and the path is returned once
C29_Witness ==
    /\ CallReturned("get_test_paths_from_scopes")
    /\ call.ret.v.tag = "Ok"
    /\ Len(call.args[2]) = 2
    /\ call.args[2][1] # call.args[2][2]
    /\ Len(call.ret.v.v) >= 2
    /\ Len(call.ret.v.v) < Len(Requested(call.args[1], call.args[2]))

\* the entries that the file at path with these tags gets under tag: one for each time the
\* tag stands in tags, and one under the default tag when tags is empty
Entries(tag, path, tags) ==
    IF tags = << >>
    THEN IF tag = get_default_tag THEN <<to_string_lossy(path)>> ELSE << >>
    ELSE [i \in 1..Len(SelectSeq(tags, LAMBDA t : t = tag)) |-> to_string_lossy(path)]

\* the entries of the files of the list under tag, in the order of the list
RECURSIVE Under(_, _, _)
Under(tag, files, dir) ==
    IF files = << >> THEN << >>
    ELSE Entries(tag, Head(files), dir.files[Head(files)].tags) \o Under(tag, Tail(files), dir)

\* the entries of index under tag
At(index, tag) == IF tag \in DOMAIN index THEN index[tag] ELSE << >>

\* every file of the list is there and reads as a TestSpec
AllTestFiles(files, dir) ==
    \A i \in DOMAIN files : files[i] \in DOMAIN dir.files /\ dir.files[files[i]].kind = "test"

\* C30: generate_index on a list of test files returns Ok and lists every file under each
\* of its tags, and a file with an empty tag list under the default tag only: behind the
\* entries a tag had before come the files of the list with that tag, in the order of the
\* list, and no other tag is listed; the stored hash is the hash of the list, and the index
\* is saved.  On a list with a file that does not read as a TestSpec it returns the error
\* and stores no hash.
C30_GenerateIndex ==
    CallReturned("generate_index")
    => LET self == call.args[1]
           all_files == call.args[2]
           dir == call.args[3]
           ret == call.ret.v
       IN  IF AllTestFiles(all_files, dir)
           THEN /\ ret.ret = Ok
                /\ \A tag \in DOMAIN ret.self.index \cup DOMAIN self.index \cup ScopeTags :
                      At(ret.self.index, tag) = At(self.index, tag) \o Under(tag, all_files, dir)
                /\ \A tag \in DOMAIN ret.self.index : ret.self.index[tag] # << >>
                /\ ret.self.hash = get_hash(all_files)
                /\ ret.file = Some([hash |-> ret.self.hash, index |-> ret.self.index])
           ELSE /\ ret.ret.tag = "Err"
                /\ ret.self.hash = self.hash
                /\ ret.file = None

\* an index was generated from two files, one with an empty tag list and one with tags
C30_Witness ==
    /\ CallReturned("generate_index")
    /\ call.ret.v.ret = Ok
    /\ call.args[1] = Index_empty
    /\ Len(call.args[2]) = 2
    /\ \E i, j \in 1..2 :
          /\ call.args[3].files[call.args[2][i]].tags = << >>
          /\ Len(call.args[3].files[call.args[2][j]].tags) = 2
    /\ get_default_tag \in DOMAIN call.ret.v.self.index

\* the files of the model in the order of their paths
CollectOrder ==
    << Path(<< >>, "README", None), Path(<< >>, "a", Some(Json)),
       Path(<< >>, "index", Some(JsonUpper)), Path(<< >>, "index", Some(Json)),
       Path(<< >>, "notes", Some(Jsonnet)), Path(<<"sub">>, "b", Some(JsonUpper)),
       Path(<<"sub", "deep">>, "c", Some(Json)), Path(<<"sub">>, "index", Some(Json)) >>

PlaceOf(path) == CHOOSE i \in DOMAIN CollectOrder : CollectOrder[i] = path

\* the files found at path: the file itself, the children of a directory or, when
\* recursive, all its descendants
FoundAt(dir, path, recursive) ==
    IF "dir" \notin DOMAIN path THEN {path} \cap DOMAIN dir.files
    ELSE {p \in DOMAIN dir.files :
             IF recursive
             THEN Len(p.parent) >= Len(path.dir)
                  /\ \A i \in DOMAIN path.dir : p.parent[i] = path.dir[i]
             ELSE p.parent = path.dir}

\* a file with the extension json in any case that is not named index.json
JsonNotIndex(path) ==
    /\ path.extension \in {Some(Json), Some(JsonUpper)}
    /\ ~(path.stem = "index" /\ path.extension = Some(Json))

\* C31: collect_test_files returns, in sorted order, exactly the files with a .json
\* extension (in any case) other than index.json found at the path: the file itself for a
\* file, the children for a non-recursive directory, all descendants for a recursive one.
\* It returns an error only for a directory that cannot be read.
C31_CollectTestFiles ==
    CallReturned("collect_test_files")
    => LET dir == call.args[1]
           path == call.args[2]
           recursive == call.args[3]
           ret == call.ret.v
       IN  IF ret.tag = "Err"
           THEN "dir" \in DOMAIN path /\ ~dir.readable
           ELSE /\ Range(ret.v) = {p \in FoundAt(dir, path, recursive) : JsonNotIndex(p)}
                /\ \A i, j \in DOMAIN ret.v : i < j => PlaceOf(ret.v[i]) < PlaceOf(ret.v[j])

\* a recursive search returned files of three directories and left out an index.json
C31_Witness ==
    /\ CallReturned("collect_test_files")
    /\ call.args[3]
    /\ call.ret.v.tag = "Ok"
    /\ Len(call.ret.v.v) >= 4
    /\ Path(<<"sub">>, "index", Some(Json)) \in DOMAIN call.args[1].files
    /\ Path(<<"sub", "deep">>, "c", Some(Json)) \in Range(call.ret.v.v)

\* C32: create_player is never called in a run_test whose spec has no setup player
\* configuration and in which no UseItemOn, SetSlot or SelectHotbar action has been
\* dispatched, also when such an action is scheduled after the tick at which the test fails.
C32_NoSpeculativePlayer ==
    (/\ pc # "start"
     /\ ~HasPlayerConfig(spec)
     /\ \A k \in DOMAIN dispatched : ~NeedsPlayer(ActionOf(dispatched[k])))
    => CreatePlayerCalls(calls) = {} /\ player = None

\* a test without player configuration failed at tick 0 while a player action was
\* scheduled at tick 1
C32_Witness ==
    /\ pc = "done"
    /\ ~HasPlayerConfig(spec)
    /\ dispatched # << >>
    /\ Mismatch(Last(dispatched))
    /\ Last(dispatched).tick = 0
    /\ \E x \in SchedOf(tests) : x[1] = 1 /\ NeedsPlayer(EntryOf(tests, <<x[2], x[3], x[4]>>).action_type)
    /\ CreatePlayerCalls(calls) = {}

(***************************************************************************)
(* Vocabulary of the sequence of the tests of a batch.                     *)
(***************************************************************************)
CreateWorldCalls(s) == {i \in DOMAIN s : s[i] = OpCreateTestWorld}

\* the log b is the log a followed by operations on the world of a
Extends(a, b) ==
    /\ Len(a) <= Len(b)
    /\ SubSeq(b, 1, Len(a)) = a
    /\ \A j \in (Len(a) + 1)..Len(b) : b[j] # OpCreateTestWorld

\* every finished test has worked on a world it created first, and once, and between two
\* tests the operations of the last one are all on its log
OneWorldPerTest ==
    /\ Len(logs) = Len(results)
    /\ \A i \in DOMAIN logs : CreateWorldCalls(logs[i]) = {1}
    /\ pc \in {"loop", "finish", "done", "unwound"} => CreateWorldCalls(calls) = {1}
    /\ (pc \in {"batch", "returned"} /\ logs # << >>) => calls = Last(logs)

\* a step leaves the logs of the finished tests as they are, and adds operations only
\* to the world of the one test that is running
OneTestAtATime ==
    /\ \A i \in DOMAIN logs : i \in DOMAIN logs' /\ logs'[i] = logs[i]
    /\ logs' # logs => pc = "done" /\ logs' = Append(logs, calls)
    /\ calls' # calls =>
          \/ pc = "batch" /\ calls' = << >>
          \/ pc = "start" /\ calls = << >> /\ CreateWorldCalls(calls') = {1}
          \/ pc = "loop" /\ Extends(calls, calls')

(***************************************************************************)
(* C33.  In run_tests every spec runs in a world of its own, created by    *)
(* the one create_test_world call of its run_test, and the operations of   *)
(* spec i are all made before the first operation of spec i+1: the         *)
(* operations of two tests are not interleaved, and the log of a finished  *)
(* test is never added to.                                                 *)
(***************************************************************************)
C33_TestsInSequence == []OneWorldPerTest /\ [][OneTestAtATime]_vars

\* the second test of a batch checks a block after the first one has placed one
C33_Witness ==
    /\ pc = "loop"
    /\ Len(specs.v) = 2
    /\ Len(logs) = 1
    /\ \E j \in DOMAIN logs[1] : logs[1][j].op = "set_block"
    /\ \E j \in DOMAIN calls : calls[j].op = "get_block"

(***************************************************************************)
(* Vocabulary of the offsets of from_tests.                                *)
(***************************************************************************)
\* the same specs, each with the offset [0, 0, 0]
AtOrigin(tws) == [k \in DOMAIN tws |-> <<tws[k][1], Origin>>]

\* the schedule tuples of an aggregate
TuplesOf(agg) ==
    UNION {Range(agg.timeline[t]) : t \in DOMAIN agg.timeline}

(***************************************************************************)
(* C34.  The aggregate from_tests builds (the scheduled ticks, the tuples  *)
(* of each tick, max_tick and the breakpoints) is the one it builds from   *)
(* the same specs with every offset [0, 0, 0], and the entry of each       *)
(* schedule tuple is the entry as the spec wrote it, its position not      *)
(* moved by the offset.                                                    *)
(***************************************************************************)
C34_OffsetsIgnored ==
    (pc = "query" /\ spec = None) =>
       /\ timeline = from_tests(AtOrigin(tests))
       /\ \A item \in TuplesOf(timeline) :
             /\ EntryOf(tests, item) = tests[item[1] + 1][1].timeline[item[2] + 1]
             /\ EntryOf(tests, item) = EntryOf(AtOrigin(tests), item)

\* two specs, the second at another offset than the first, and a block placed by
\* the second
C34_Witness ==
    /\ pc = "query"
    /\ spec = None
    /\ Len(tests) = 2
    /\ tests[1][2] = Origin
    /\ tests[2][2] # Origin
    /\ \E item \in TuplesOf(timeline) :
          item[1] = 1 /\ EntryOf(tests, item).action_type.do = "place"
    /\ timeline.breakpoints # {}

(***************************************************************************)
(* Vocabulary of the sweep of run_test over the schedule.                  *)
(***************************************************************************)
\* the dispatches of the schedule tuple x
DispatchesOf(x) == {k \in DOMAIN dispatched : KeyOf(dispatched[k]) = x}

\* the schedule tuples of the Assert entries
AssertSched(tws) ==
    {x \in SchedOf(tws) : EntryOf(tws, <<x[2], x[3], x[4]>>).action_type.do = "assert"}

SuccessRecords(res) == {i \in DOMAIN res.assertions : res.assertions[i].kind = "Success"}

(***************************************************************************)
(* C35.  When run_test has returned and no check has mismatched, no tick   *)
(* of the schedule is greater than max_tick, every schedule tuple (an      *)
(* entry at one of its ticks) has been dispatched exactly once and nothing *)
(* else has, and the result holds as many Success records as the schedule  *)
(* has tuples of Assert entries.                                           *)
(***************************************************************************)
C35_EveryEntryOnce ==
    (pc = "done" /\ NoMismatch) =>
       /\ \A x \in SchedOf(tests) : x[1] <= timeline.max_tick
       /\ \A x \in SchedOf(tests) : Cardinality(DispatchesOf(x)) = 1
       /\ Len(dispatched) = Cardinality(SchedOf(tests))
       /\ Cardinality(SuccessRecords(result)) = Cardinality(AssertSched(tests))
       /\ Len(result.assertions) = Cardinality(AssertSched(tests))

\* a passing run with an Assert at ticks 2 and 0 and a second entry at tick 1 twice
C35_Witness ==
    /\ pc = "done"
    /\ NoMismatch
    /\ Len(spec.timeline) = 2
    /\ spec.timeline[1] = [at |-> Multiple(<<2, 0>>), action_type |-> Assert_(Checks(1))]
    /\ spec.timeline[2].at = Multiple(<<1, 1>>)
    /\ Len(dispatched) = 4
    /\ Cardinality(SuccessRecords(result)) >= 2

(***************************************************************************)
(* Vocabulary of the assertion list of a result.                           *)
(***************************************************************************)
FailureRecords(res) == {i \in DOMAIN res.assertions : res.assertions[i].kind = "Failure"}

\* the tick of an assertion record
TickOf(record) == IF record.kind = "Success" THEN record.tick ELSE record.fail.tick

(***************************************************************************)
(* C36.  Throughout run_test the assertion list of the result holds at     *)
(* most one Failure; a Failure is the last record, and run_test has then   *)
(* returned without another operation after the get_block of the check     *)
(* that mismatched; the ticks of the records never decrease along the      *)
(* list; and success is true exactly when the list holds no Failure.       *)
(***************************************************************************)
C36_FailureIsLast ==
    result # None =>
       /\ Cardinality(FailureRecords(result)) <= 1
       /\ \A i \in FailureRecords(result) :
             /\ i = Len(result.assertions)
             /\ pc = "done"
             /\ \E j \in DOMAIN EntryOf(tests, Last(dispatched).item).action_type.checks :
                   /\ FirstMismatchAt(Last(dispatched), j)
                   /\ Len(calls) = Last(dispatched).before + j
       /\ \A i, j \in DOMAIN result.assertions :
             i < j => TickOf(result.assertions[i]) <= TickOf(result.assertions[j])
       /\ result.success = (FailureRecords(result) = {})

\* an Assert passes at tick 0, another twice at tick 1, and the first fails at tick 2
C36_Witness ==
    /\ pc = "done"
    /\ Len(result.assertions) = 4
    /\ result.assertions[1] = Success(0)
    /\ result.assertions[2] = Success(1)
    /\ result.assertions[3] = Success(1)
    /\ FailureRecords(result) = {4}
    /\ TickOf(result.assertions[4]) = 2
    /\ ~result.success

(***************************************************************************)
(* C37.  run_test of a spec whose timeline is empty goes through tick 0    *)
(* only and dispatches nothing; once it has returned, the world has been   *)
(* ticked exactly once, by the last operation of the run, and the result   *)
(* has success == true, total_ticks == 0 and no assertion record.          *)
(***************************************************************************)
C37_EmptyTimeline ==
    (pc # "start" /\ spec.timeline = << >>) =>
       /\ timeline.max_tick = 0
       /\ visited = <<0>>
       /\ dispatched = << >>
       /\ NumDoTicks(calls) <= 1
       /\ pc = "done" =>
             /\ NumDoTicks(calls) = 1
             /\ Last(calls) = OpDoTick
             /\ \A i \in DOMAIN calls : calls[i].op \notin {"set_block", "get_block", "use_item_on"}
             /\ result.success = TRUE
             /\ result.total_ticks = 0
             /\ result.assertions = << >>

\* the run of an empty timeline has returned, the player of its setup configured
C37_Witness ==
    /\ pc = "done"
    /\ spec.timeline = << >>
    /\ HasPlayerConfig(spec)
    /\ calls = <<OpCreateTestWorld, OpCreatePlayer, OpSelectHotbar(1), OpDoTick>>
    /\ result.success

(***************************************************************************)
(* C38.  The ticks a walk of next_event_tick has returned are strictly     *)
(* increasing and are, in order, the first scheduled action ticks and      *)
(* breakpoints greater than the start tick; when the walk has ended with   *)
(* None they are all of them, each returned once.  The start tick is never *)
(* returned, whether or not an event is at it.                             *)
(***************************************************************************)
C38_WalkVisitsEachEventOnce ==
    pc \in {"walk", "ended"} =>
       /\ \A i, j \in DOMAIN event.returned : i < j => event.returned[i] < event.returned[j]
       /\ \A i \in DOMAIN event.returned :
             /\ event.returned[i] \in EventsAfter(event.start)
             /\ Cardinality({x \in EventsAfter(event.start) : x < event.returned[i]}) = i - 1
       /\ event.start \notin Range(event.returned)
       /\ pc = "ended" =>
             /\ Range(event.returned) = EventsAfter(event.start)
             /\ Len(event.returned) = Cardinality(EventsAfter(event.start))

\* a walk from tick 0 has returned a breakpoint, then an action tick, and has ended
C38_Witness ==
    /\ pc = "ended"
    /\ event.start = 0
    /\ event.returned = <<1, 2>>
    /\ 1 \in timeline.breakpoints
    /\ 2 \in DOMAIN timeline.timeline

(***************************************************************************)
(* Vocabulary of the order block_matches defines.                          *)
(***************************************************************************)
\* the block with the property key set to value, added or replaced
WithProperty(block, key, value) ==
    [block EXCEPT !.properties =
        [k \in DOMAIN block.properties \cup {key} |->
            IF k = key THEN value ELSE block.properties[k]]]

(***************************************************************************)
(* C39.  block_matches accepts every block as a match of itself; when it   *)
(* accepts actual for expected it also accepts actual with one more        *)
(* property, of a key the expected block does not name; and it is not      *)
(* symmetric: it accepts some actual for an expected block that it does    *)
(* not accept for that actual.                                             *)
(***************************************************************************)
C39_ReflexiveMonotone ==
    MatchReturned =>
       LET actual == call.args[1]
           expected == call.args[2]
       IN  /\ actual = expected => call.ret = Some(TRUE)
           /\ call.ret = Some(TRUE) =>
                 \A key \in {"powered", "face"} \ DOMAIN expected.properties :
                    \A value \in {"true", "false"} :
                       block_matches(WithProperty(actual, key, value), expected)
           /\ \E a, e \in MatchBlocks : block_matches(a, e) /\ ~block_matches(e, a)

\* lever[powered=true] is accepted for lever, which has a property to add, and lever is
\* not accepted for lever[powered=true]
C39_Witness ==
    /\ MatchReturned
    /\ call.args[1] = Block(<<"lever">>, [powered |-> "true"])
    /\ call.args[2] = Block(<<"lever">>, << >>)
    /\ call.ret = Some(TRUE)
    /\ ~block_matches(call.args[2], call.args[1])
    /\ block_matches(WithProperty(call.args[1], "face", "false"), call.args[2])

====
